---- MODULE Spec2Model ----
(***************************************************************************)
(* Model of the SFNT font library (package font): the SFNT writer, the     *)
(* TrueType glyf/loca engine, Subset and Merge.  Tables are byte           *)
(* sequences (big endian), parsed views are records next to them.          *)
(***************************************************************************)
EXTENDS Integers, Sequences, FiniteSets, TLC

VARIABLES
    sfnt,   \* the receiver font (*SFNT): Tables and the parsed views
    sfnt2,  \* the other font of Merge
    call,   \* the arguments of the running call
    ret,    \* the value the call returned
    pc      \* position of the caller: "idle" before the call, "done" after

vars == <<sfnt, sfnt2, call, ret, pc>>

None == "none"

(***************************************************************************)
(* Fixed-width integers and big-endian byte strings                       *)
(***************************************************************************)
Pow16 == 65536
MaxUint16 == 65535

U16(x) == x % Pow16
\* int16(x): the two's complement reading of the low 16 bits
I16(x) == IF U16(x) >= 32768 THEN U16(x) - Pow16 ELSE U16(x)

Min(a, b) == IF a < b THEN a ELSE b
Max(a, b) == IF a < b THEN b ELSE a

\* the value of a function of one point: With([x \in {v} |-> e]) is e with
\* x bound to v, v evaluated once: a local variable of the code
With(f) == f[CHOOSE v \in DOMAIN f : TRUE]

RECURSIVE Pow2(_)
Pow2(k) == IF k = 0 THEN 1 ELSE 2 * Pow2(k - 1)

\* bit k of x
Bit(x, k) == (x \div Pow2(k)) % 2 = 1

RECURSIVE BitOr(_, _)
BitOr(a, b) ==
    IF a = 0 THEN b
    ELSE IF b = 0 THEN a
    ELSE (IF a % 2 = 1 \/ b % 2 = 1 THEN 1 ELSE 0) + 2 * BitOr(a \div 2, b \div 2)

\* A uint32 is kept as its two 16-bit halves <<hi, lo>>, so that sums wrap
\* modulo 2^32 exactly as in the program.
W32(n) == << (n \div Pow16) % Pow16, n % Pow16 >>
Add32(a, b) == << (a[1] + b[1] + ((a[2] + b[2]) \div Pow16)) % Pow16,
                  (a[2] + b[2]) % Pow16 >>
Neg32(a) == IF a[2] = 0 THEN << (Pow16 - a[1]) % Pow16, 0 >>
            ELSE << Pow16 - 1 - a[1], Pow16 - a[2] >>
Sub32(a, b) == Add32(a, Neg32(b))

BE16(v) == << (U16(v) \div 256), U16(v) % 256 >>
\* WriteUint32 of a small non-negative value, resp. of a uint32 <<hi, lo>>
BE32(v) == BE16(v \div Pow16) \o BE16(v)
BE32W(w) == BE16(w[1]) \o BE16(w[2])
\* WriteInt64 of a non-negative value below 2^31
BE64(v) == <<0, 0, 0, 0>> \o BE32(v)

Uint16At(b, i) == b[i + 1] * 256 + b[i + 2]
\* binary.BigEndian.Uint32 as <<hi, lo>>
Uint32At(b, i) == << Uint16At(b, i), Uint16At(b, i + 2) >>

\* Go slices b[lo:hi] and b[lo:], zero-based
Slice(b, lo, hi) == SubSeq(b, lo + 1, hi)
From(b, lo) == SubSeq(b, lo + 1, Len(b))
\* copy(b[pos:], v), resp. binary.BigEndian.PutUintNN(b[pos:], v)
Put(b, pos, v) ==
    [i \in 1..Len(b) |-> IF i > pos /\ i <= pos + Len(v) THEN v[i - pos] ELSE b[i]]

Zeros(n) == [i \in 1..n |-> 0]

\* both split their argument in halves, so that the nesting stays shallow
RECURSIVE Flatten(_)
Flatten(ss) ==
    IF Len(ss) = 0 THEN <<>>
    ELSE IF Len(ss) = 1 THEN ss[1]
    ELSE Flatten(SubSeq(ss, 1, Len(ss) \div 2))
         \o Flatten(SubSeq(ss, (Len(ss) \div 2) + 1, Len(ss)))

RECURSIVE SeqSum(_)
SeqSum(s) ==
    IF Len(s) = 0 THEN 0
    ELSE IF Len(s) = 1 THEN s[1]
    ELSE SeqSum(SubSeq(s, 1, Len(s) \div 2))
         + SeqSum(SubSeq(s, (Len(s) \div 2) + 1, Len(s)))

Range(s) == {s[i] : i \in 1..Len(s)}

\* calcChecksum: the sum of the big-endian 32-bit words, modulo 2^32
calcChecksum(b) ==
    LET n == Len(b) \div 4
        hi == SeqSum([i \in 1..n |-> Uint16At(b, 4 * (i - 1))])
        lo == SeqSum([i \in 1..n |-> Uint16At(b, 4 * (i - 1) + 2)])
    IN  << (hi + (lo \div Pow16)) % Pow16, lo % Pow16 >>

Padding(n) == (4 - (n % 4)) % 4
Pad4(b) == b \o Zeros(Padding(Len(b)))

(***************************************************************************)
(* Table tags.  sort.Strings orders byte-wise, so upper case sorts before *)
(* lower case: "OS/2" comes before "cmap".                                 *)
(***************************************************************************)
TagOrder == <<"CFF ", "DSIG", "OS/2", "cmap", "cvt ", "fpgm", "glyf", "head",
              "hhea", "hmtx", "kern", "loca", "maxp", "name", "post", "prep">>

TagBytes(tag) ==
    CASE tag = "CFF " -> <<67, 70, 70, 32>>
      [] tag = "DSIG" -> <<68, 83, 73, 71>>
      [] tag = "OS/2" -> <<79, 83, 47, 50>>
      [] tag = "cvt " -> <<99, 118, 116, 32>>
      [] tag = "fpgm" -> <<102, 112, 103, 109>>
      [] tag = "prep" -> <<112, 114, 101, 112>>
      [] tag = "cmap" -> <<99, 109, 97, 112>>
      [] tag = "glyf" -> <<103, 108, 121, 102>>
      [] tag = "head" -> <<104, 101, 97, 100>>
      [] tag = "hhea" -> <<104, 104, 101, 97>>
      [] tag = "hmtx" -> <<104, 109, 116, 120>>
      [] tag = "kern" -> <<107, 101, 114, 110>>
      [] tag = "loca" -> <<108, 111, 99, 97>>
      [] tag = "maxp" -> <<109, 97, 120, 112>>
      [] tag = "name" -> <<110, 97, 109, 101>>
      [] tag = "post" -> <<112, 111, 115, 116>>

RECURSIVE SelectTags(_, _)
SelectTags(order, S) ==
    IF order = <<>> THEN <<>>
    ELSE (IF Head(order) \in S THEN <<Head(order)>> ELSE <<>>)
         \o SelectTags(Tail(order), S)

\* sort.Strings over a set of tags
SortTags(S) == SelectTags(TagOrder, S)

Has(f, tag) == tag \in DOMAIN f.Tables

(***************************************************************************)
(* head table (54 bytes)                                                   *)
(***************************************************************************)
HeadMagic == <<24335, 15605>>       \* 0x5F0F3CF5
ChecksumMagic == <<45488, 44986>>   \* 0xB1B0AFBA

HeadBytes(adj, modified, locFormat) ==
    BE16(1) \o BE16(0)              \* version
    \o BE32(65536)                  \* fontRevision
    \o BE32W(adj)                   \* checkSumAdjustment
    \o BE32W(HeadMagic)             \* magicNumber
    \o BE16(0) \o BE16(1000)        \* flags, unitsPerEm
    \o BE64(0) \o BE64(modified)    \* created, modified
    \o BE16(0) \o BE16(0) \o BE16(0) \o BE16(0)   \* bounding box
    \o BE16(0) \o BE16(8) \o BE16(2)              \* macStyle, lowestRecPPEM, hint
    \o BE16(locFormat)              \* indexToLocFormat
    \o BE16(0)                      \* glyphDataFormat

(***************************************************************************)
(* SFNT.Write                                                               *)
(***************************************************************************)
RECURSIVE Log2Floor(_)
Log2Floor(n) == IF n <= 1 THEN 0 ELSE 1 + Log2Floor(n \div 2)

\* the bytes written for one table: head gets the current time as modified
WriteTableBytes(f, tag, now) ==
    IF tag = "head"
    THEN Slice(f.Tables[tag], 0, 28) \o BE64(now) \o From(f.Tables[tag], 36)
    ELSE f.Tables[tag]

RECURSIVE WriteOffsets(_, _, _, _)
\* offsets[i] = w.Len() before table i is written
WriteOffsets(f, tags, now, pos) ==
    IF tags = <<>> THEN <<>>
    ELSE <<pos>> \o WriteOffsets(f, Tail(tags), now,
                       pos + Len(Pad4(WriteTableBytes(f, Head(tags), now))))

WriteHeader(f, numTables) ==
    LET entrySelector == Log2Floor(numTables)
        searchRange == U16(Pow2(entrySelector + 4))
    IN  (IF f.IsTrueType THEN BE32(65536)
         ELSE IF f.IsCFF THEN <<79, 84, 84, 79>> ELSE <<>>)
        \o BE16(numTables) \o BE16(searchRange) \o BE16(entrySelector)
        \o BE16(U16(numTables * 16 - searchRange + Pow16))

\* the value stored at checksumAdjustmentPos: computed over the buffer as
\* written, the head table's stored checkSumAdjustment included
WriteAdjustment(buf) == Sub32(ChecksumMagic, calcChecksum(buf))

Write(f, now) ==
    LET tags == SortTags(DOMAIN f.Tables)
        numTables == Len(tags)
        header == WriteHeader(f, numTables)
        offsets == WriteOffsets(f, tags, now, Len(header) + 16 * numTables)
        body == Flatten([i \in 1..numTables |-> Pad4(WriteTableBytes(f, tags[i], now))])
        records == Flatten([i \in 1..numTables |->
                      TagBytes(tags[i])
                      \o BE32W(calcChecksum(Pad4(WriteTableBytes(f, tags[i], now))))
                      \o BE32(offsets[i])
                      \o BE32(Len(WriteTableBytes(f, tags[i], now)))])
        buf == header \o records \o body
        headIdx == CHOOSE i \in 1..numTables : tags[i] = "head"
        checksumAdjustmentPos == offsets[headIdx] + 8
    IN  Put(buf, checksumAdjustmentPos, BE32W(WriteAdjustment(buf)))

(***************************************************************************)
(* cmap: the writer (formats 4 and 12), the parser and the lookups         *)
(***************************************************************************)
MaxCmapSegments == 20000

\* sort.Slice(rs, less): ascending, duplicates kept
RECURSIVE SortRunes(_)
SortRunes(rs) ==
    IF rs = <<>> THEN <<>>
    ELSE LET m == CHOOSE x \in Range(rs) : \A y \in Range(rs) : x <= y
             k == CHOOSE i \in 1..Len(rs) : rs[i] = m
         IN  <<m>> \o SortRunes(SubSeq(rs, 1, k - 1) \o SubSeq(rs, k + 1, Len(rs)))

\* the maximal stretches of consecutive runes of rs, as <<first index, last index>>
RECURSIVE RuneRuns(_, _, _)
RuneRuns(rs, i0, i) ==
    IF i > Len(rs) THEN <<>>
    ELSE IF i = Len(rs) \/ rs[i] + 1 # rs[i + 1]
         THEN << <<i0, i>> >> \o RuneRuns(rs, i + 1, i + 1)
         ELSE RuneRuns(rs, i0, i + 1)

\* the inner loop of cmapWriteFormat4 over one stretch: rs and glyphIDs are the
\* stretch (1-based), j, j0, jc the loop variables of the code (0-based)
RECURSIVE Format4Segments(_, _, _, _, _)
Format4Segments(rs, glyphIDs, j, j0, jc) ==
    LET n == Len(glyphIDs)
        seg(a, b, contiguous) ==
            [firstCode |-> rs[a + 1], lastCode |-> rs[b], contiguous |-> contiguous,
             glyphIDs |-> SubSeq(glyphIDs, a + 1, b)]
        gap == j < n /\ U16(glyphIDs[j] + 1) # glyphIDs[j + 1]
    IN  IF j > n THEN <<>>
        ELSE IF j = n \/ (gap /\ 8 < j - jc)
        THEN IF 8 < j - jc /\ j0 # jc
             THEN << seg(j0, jc, FALSE), seg(jc, j, TRUE) >>
                  \o (IF j = n THEN <<>> ELSE Format4Segments(rs, glyphIDs, j + 1, j, j))
             ELSE IF j = n
             THEN << seg(j0, j, j0 = jc) >>
             ELSE Format4Segments(rs, glyphIDs, j + 1, j0, jc)
        ELSE IF gap
        THEN Format4Segments(rs, glyphIDs, j + 1, j0, j)
        ELSE Format4Segments(rs, glyphIDs, j + 1, j0, jc)

\* addSegment, applied to the segments in order: the cmapFormat4 data
RECURSIVE AddSegments(_, _)
AddSegments(segs, data) ==
    IF segs = <<>> THEN data
    ELSE LET s == Head(segs)
             delta == s.glyphIDs[1] - s.firstCode
             adj == IF 32767 < delta THEN delta - Pow16
                    ELSE IF delta < -32768 THEN delta + Pow16 ELSE delta
         IN  AddSegments(Tail(segs),
               [EndCode |-> Append(data.EndCode, U16(s.lastCode)),
                StartCode |-> Append(data.StartCode, U16(s.firstCode)),
                IdDelta |-> Append(data.IdDelta, IF s.contiguous THEN I16(adj) ELSE 0),
                IdRangeOffset |-> Append(data.IdRangeOffset,
                    IF s.contiguous THEN 0 ELSE U16(Len(data.GlyphIdArray))),
                GlyphIdArray |-> IF s.contiguous THEN data.GlyphIdArray
                                 ELSE data.GlyphIdArray \o s.glyphIDs])

Words16(s) == Flatten([i \in 1..Len(s) |-> BE16(s[i])])

\* cmapWriteFormat4: rs sorted, runeMap a function on the runes of rs
cmapWriteFormat4(rs, runeMap) ==
    LET runs == RuneRuns(rs, 1, 1)
        segs == Flatten([k \in 1..Len(runs) |->
                   Format4Segments(SubSeq(rs, runs[k][1], runs[k][2]),
                       [i \in 1..(runs[k][2] - runs[k][1] + 1) |-> runeMap[rs[runs[k][1] + i - 1]]],
                       1, 0, 0)])
        last == IF rs[Len(rs)] # MaxUint16
                THEN << [firstCode |-> MaxUint16, lastCode |-> MaxUint16,
                         contiguous |-> TRUE, glyphIDs |-> <<0>>] >>
                ELSE <<>>
        body(data) ==
            LET segCount == Len(data.StartCode)
                searchRange == Pow2(Log2Floor(segCount))
                entrySelector == Log2Floor(searchRange)
            IN  BE16(segCount * 2) \o BE16(searchRange * 2) \o BE16(entrySelector)
                \o BE16((segCount - searchRange) * 2)
                \o Words16(data.EndCode) \o BE16(0) \o Words16(data.StartCode)
                \o Words16(data.IdDelta)
                \o Words16([i \in 1..segCount |->
                      IF data.IdDelta[i] # 0 THEN 0
                      ELSE U16((U16(segCount - (i - 1)) + data.IdRangeOffset[i]) * 2)])
                \o Words16(data.GlyphIdArray)
    IN  With([data \in {AddSegments(segs \o last,
                   [EndCode |-> <<>>, StartCode |-> <<>>, IdDelta |-> <<>>,
                    IdRangeOffset |-> <<>>, GlyphIdArray |-> <<>>])} |->
          With([bytes \in {body(data)} |->
            BE16(4) \o BE16(6 + Len(bytes)) \o BE16(0) \o bytes])])

\* the groups written by cmapWriteFormat12, as <<startCharCode, endCharCode, startGlyphID>>
RECURSIVE Format12Groups(_, _, _, _, _, _)
Format12Groups(rs, runeMap, i, startCharCode, startGlyphID, n) ==
    IF i > Len(rs)
    THEN << <<startCharCode, startCharCode + n - 1, startGlyphID>> >>
    ELSE IF rs[i] = rs[i - 1]
    THEN Format12Groups(rs, runeMap, i + 1, startCharCode, startGlyphID, n)
    ELSE IF rs[i] = startCharCode + n /\ runeMap[rs[i]] = startGlyphID + n
    THEN Format12Groups(rs, runeMap, i + 1, startCharCode, startGlyphID, n + 1)
    ELSE << <<startCharCode, startCharCode + n - 1, startGlyphID>> >>
         \o Format12Groups(rs, runeMap, i + 1, rs[i], runeMap[rs[i]], 1)

cmapWriteFormat12(rs, runeMap) ==
    With([groups \in {Format12Groups(rs, runeMap, 2, rs[1], runeMap[rs[1]], 1)} |->
      With([body \in {Flatten([k \in 1..Len(groups) |->
                   BE32(groups[k][1]) \o BE32(groups[k][2]) \o BE32(groups[k][3])])} |->
             BE16(12) \o BE16(0) \o BE32(16 + Len(body)) \o BE32(0)
             \o BE32(Len(groups)) \o body])])

MaxRune(rs) == CHOOSE x \in Range(rs) \cup {0} : \A y \in Range(rs) \cup {0} : y <= x

\* cmapWrite: one subtable under two encoding records, format 4 when every rune
\* is at most 0xFFFF and format 12 otherwise
cmapWrite(rs0, runeMap) ==
    IF Len(rs0) = 0 THEN <<0, 0, 0, 0>>
    ELSE LET rs == SortRunes(rs0)
         IN  IF MaxRune(rs) <= MaxUint16
             THEN BE16(0) \o BE16(2)
                  \o BE16(0) \o BE16(3) \o BE32(20) \o BE16(3) \o BE16(1) \o BE32(20)
                  \o cmapWriteFormat4(rs, runeMap)
             ELSE BE16(0) \o BE16(2)
                  \o BE16(0) \o BE16(4) \o BE32(20) \o BE16(3) \o BE16(10) \o BE32(20)
                  \o cmapWriteFormat12(rs, runeMap)

CmapErr == [format |-> "err"]
CmapEmpty == [format |-> "none"]

Small32At(b, i) == Uint16At(b, i) * Pow16 + Uint16At(b, i + 2)

\* parseCmap, format 4 subtable at b (the subtable's bytes, its length field applied)
parseCmapFormat4(b, numGlyphs) ==
    IF Len(b) < 14 THEN CmapErr
    ELSE LET segCountX2 == Uint16At(b, 6)
             segCount == segCountX2 \div 2
             rest == Len(b) - 14
             at16(base, i) == Uint16At(b, base + 2 * (i - 1))
             endAt == 14
             startAt == 16 + 2 * segCount
             deltaAt == 16 + 4 * segCount
             rangeAt == 16 + 6 * segCount
             arrayAt == 16 + 8 * segCount
             glyphIdArrayBytes == Len(b) - arrayAt
             EndCode == [i \in 1..segCount |-> at16(endAt, i)]
             StartCode == [i \in 1..segCount |-> at16(startAt, i)]
             IdDelta == [i \in 1..segCount |->
                           IF i = segCount THEN 1 ELSE I16(at16(deltaAt, i))]
             IdRangeOffset == [i \in 1..segCount |->
                           IF i = segCount THEN 0 ELSE at16(rangeAt, i)]
             n == glyphIdArrayBytes \div 2
             GlyphIdArray == [i \in 1..n |-> at16(arrayAt, i)]
         IN  IF segCountX2 % 2 # 0 \/ segCountX2 = 0 THEN CmapErr
             ELSE IF MaxCmapSegments < segCount THEN CmapErr
             ELSE IF rest < 2 + 8 * segCount THEN CmapErr
             ELSE IF \E i \in 2..segCount : EndCode[i] <= EndCode[i - 1] THEN CmapErr
             ELSE IF \E i \in 1..segCount :
                        \/ EndCode[i] < StartCode[i]
                        \/ (1 < i /\ StartCode[i] <= EndCode[i - 1]) THEN CmapErr
             ELSE IF StartCode[segCount] # MaxUint16 \/ EndCode[segCount] # MaxUint16
                  THEN CmapErr
             ELSE IF glyphIdArrayBytes % 2 # 0 THEN CmapErr
             ELSE IF \E i \in 1..(segCount - 1) :
                        \/ IdRangeOffset[i] % 2 # 0
                        \/ /\ IdRangeOffset[i] # 0
                           /\ LET index == (IdRangeOffset[i] \div 2)
                                           + (EndCode[i] - StartCode[i]) - (segCount - (i - 1))
                              IN  index < 0 \/ n <= index
                  THEN CmapErr
             ELSE IF \E i \in 1..n : numGlyphs <= GlyphIdArray[i] THEN CmapErr
             ELSE [format |-> 4, StartCode |-> StartCode, EndCode |-> EndCode,
                   IdDelta |-> IdDelta, IdRangeOffset |-> IdRangeOffset,
                   GlyphIdArray |-> GlyphIdArray]

parseCmapFormat12(b, numGlyphs) ==
    IF Len(b) < 16 THEN CmapErr
    ELSE LET numGroups == Small32At(b, 12)
             g(i, k) == Small32At(b, 16 + 12 * (i - 1) + 4 * k)
         IN  IF MaxCmapSegments < numGroups \/ Len(b) - 16 < 12 * numGroups THEN CmapErr
             ELSE IF \E i \in 1..numGroups :
                        \/ g(i, 1) < g(i, 0)
                        \/ (1 < i /\ g(i, 0) <= g(i - 1, 1))
                        \/ numGlyphs <= g(i, 1) - g(i, 0)
                        \/ numGlyphs - (g(i, 1) - g(i, 0)) <= g(i, 2) THEN CmapErr
             ELSE [format |-> 12,
                   StartCharCode |-> [i \in 1..numGroups |-> g(i, 0)],
                   EndCharCode |-> [i \in 1..numGroups |-> g(i, 1)],
                   StartGlyphID |-> [i \in 1..numGroups |-> g(i, 2)]]

\* parseCmap for tables whose encoding records all name one subtable (the
\* shape cmapWrite emits), or that hold no record
parseCmap(b, numGlyphs) ==
    IF Len(b) < 4 \/ Uint16At(b, 0) # 0 THEN CmapErr
    ELSE LET numTables == Uint16At(b, 2)
         IN  IF Len(b) < 4 + 8 * numTables THEN CmapErr
             ELSE IF numTables = 0 THEN CmapEmpty
             ELSE LET offset == Small32At(b, 8)
                      format == Uint16At(b, offset)
                      length == IF format = 4 THEN Uint16At(b, offset + 2)
                                ELSE Small32At(b, offset + 4)
                      sub == Slice(b, offset, Min(Len(b), offset + length))
                  IN  IF Len(b) - 8 < offset \/ format \notin {4, 12} \/ length < 8
                      THEN CmapErr
                      ELSE IF format = 4 THEN parseCmapFormat4(sub, numGlyphs)
                      ELSE parseCmapFormat12(sub, numGlyphs)

\* cmapTable.Get: 0 when no subtable maps the rune
cmapGet(cmap, r) ==
    IF cmap.format = 4
    THEN IF r < 0 \/ Pow16 <= r THEN 0
         ELSE LET n == Len(cmap.StartCode)
                  hit == {i \in 1..n : cmap.StartCode[i] <= r /\ r <= cmap.EndCode[i]}
              IN  IF hit = {} THEN 0
                  ELSE LET i == CHOOSE x \in hit : \A y \in hit : x <= y
                       IN  IF cmap.IdRangeOffset[i] = 0
                           THEN U16(U16(cmap.IdDelta[i] + Pow16) + r)
                           ELSE cmap.GlyphIdArray[
                                  (cmap.IdRangeOffset[i] \div 2) + (r - cmap.StartCode[i])
                                  - (n - (i - 1)) + 1]
    ELSE IF cmap.format = 12
    THEN LET hit == {i \in 1..Len(cmap.StartCharCode) :
                        cmap.StartCharCode[i] <= r /\ r <= cmap.EndCharCode[i]}
         IN  IF r < 0 \/ hit = {} THEN 0
             ELSE LET i == CHOOSE x \in hit : \A y \in hit : x <= y
                  IN  U16((r - cmap.StartCharCode[i]) + cmap.StartGlyphID[i])
    ELSE 0

\* the code points a subtable covers
cmapRunes(cmap) ==
    IF cmap.format = 4
    THEN UNION {cmap.StartCode[i]..cmap.EndCode[i] : i \in 1..Len(cmap.StartCode)}
    ELSE IF cmap.format = 12
    THEN UNION {cmap.StartCharCode[i]..cmap.EndCharCode[i] : i \in 1..Len(cmap.StartCharCode)}
    ELSE {}

\* cmapTable.ToUnicode: the reverse map keeps the first code point met while the
\* segments are walked in ascending order; 0 when the glyph has none
cmapToUnicode(cmap, glyphID) ==
    LET rsOf == {r \in cmapRunes(cmap) : cmapGet(cmap, r) = glyphID}
    IN  IF rsOf = {} THEN 0 ELSE CHOOSE r \in rsOf : \A q \in rsOf : r <= q

(***************************************************************************)
(* loca and glyf: lookups, composite dependencies, the contour decoder     *)
(* and the outline emitter                                                 *)
(***************************************************************************)
\* locaTable.Get: [ok, off]
locaGet(loca, glyphID) ==
    IF loca.Format = 0 /\ glyphID * 2 < Len(loca.data)
    THEN [ok |-> TRUE, off |-> 2 * Uint16At(loca.data, glyphID * 2)]
    ELSE IF loca.Format = 1 /\ glyphID * 4 < Len(loca.data)
    THEN [ok |-> TRUE, off |-> Small32At(loca.data, glyphID * 4)]
    ELSE [ok |-> FALSE, off |-> 0]

\* glyfTable.Get: None for nil
glyfGet(glyf, glyphID) ==
    LET start == locaGet(glyf.loca, glyphID)
        end == locaGet(glyf.loca, U16(glyphID + 1))
    IN  IF ~start.ok \/ ~end.ok THEN None
        ELSE Slice(glyf.data, start.off, end.off)

IsComposite(glyf, glyphID) ==
    LET b == glyfGet(glyf, glyphID)
    IN  IF b = None \/ Len(b) < 1 THEN FALSE ELSE b[1] >= 128

\* glyfCompositeLength(flags): [length, more]
glyfCompositeLength(flags) ==
    [length |-> 4 + 2
                + (IF Bit(flags, 0) THEN 2 ELSE 0)
                + (IF Bit(flags, 3) THEN 2
                   ELSE IF Bit(flags, 6) THEN 4
                   ELSE IF Bit(flags, 7) THEN 8 ELSE 0),
     more |-> Bit(flags, 5)]

MaxCompositeLevel == 7

\* glyfTable.dependencies: [ok, deps]; the glyph itself comes first
RECURSIVE dependencies(_, _, _)
RECURSIVE componentDeps(_, _, _, _)
componentDeps(glyf, b, pos, level) ==
    IF Len(b) - pos < 4 THEN [ok |-> FALSE, deps |-> <<>>]
    ELSE LET flags == Uint16At(b, pos)
             subGlyphID == Uint16At(b, pos + 2)
             cl == glyfCompositeLength(flags)
         IN  With([sub \in {dependencies(glyf, subGlyphID, level + 1)} |->
               IF ~sub.ok THEN sub
               ELSE IF Len(b) - (pos + 4) < cl.length - 4 THEN [ok |-> FALSE, deps |-> <<>>]
               ELSE IF ~cl.more THEN sub
               ELSE With([rest \in {componentDeps(glyf, b, pos + cl.length, level)} |->
                      IF ~rest.ok THEN rest
                      ELSE [ok |-> TRUE, deps |-> sub.deps \o rest.deps]])])

dependencies(glyf, glyphID, level) ==
    With([b \in {glyfGet(glyf, glyphID)} |->
        IF b = None THEN [ok |-> FALSE, deps |-> <<>>]
        ELSE IF Len(b) = 0 THEN [ok |-> TRUE, deps |-> <<glyphID>>]
        ELSE IF Len(b) < 10 THEN [ok |-> FALSE, deps |-> <<>>]
        ELSE IF b[1] < 128 THEN [ok |-> TRUE, deps |-> <<glyphID>>]
        ELSE IF MaxCompositeLevel < level THEN [ok |-> FALSE, deps |-> <<>>]
        ELSE With([c \in {componentDeps(glyf, b, 10, level)} |->
               IF ~c.ok THEN c ELSE [ok |-> TRUE, deps |-> <<glyphID>> \o c.deps]])])

Dependencies(glyf, glyphID) == dependencies(glyf, glyphID, 0)

\* a returned error, and a run-time panic (index out of range)
ContourErr == [ok |-> FALSE, panic |-> FALSE]
ContourPanic == [ok |-> FALSE, panic |-> TRUE]
EmptyContour ==
    [ok |-> TRUE, panic |-> FALSE, XMin |-> 0, YMin |-> 0, XMax |-> 0, YMax |-> 0, EndPoints |-> <<>>,
     Instructions |-> <<>>, OnCurve |-> <<>>, OverlapSimple |-> <<>>,
     XCoordinates |-> <<>>, YCoordinates |-> <<>>]

\* the flag loop of contour: [ok, panic, flags, pos]; the repeat count is read
\* unchecked (0 past the end of the data) and a run past numPoints indexes out of range
RECURSIVE readFlags(_, _, _, _)
readFlags(b, pos, numPoints, flags) ==
    IF Len(flags) >= numPoints
    THEN [ok |-> TRUE, panic |-> FALSE, flags |-> flags, pos |-> pos]
    ELSE IF Len(b) - pos < 1
    THEN [ok |-> FALSE, panic |-> FALSE, flags |-> flags, pos |-> pos]
    ELSE LET flag == b[pos + 1]
             repeats == IF Len(b) - pos < 2 THEN 0 ELSE b[pos + 2]
         IN  IF Bit(flag, 3)
             THEN IF Len(flags) + 1 + repeats > numPoints
                  THEN [ok |-> FALSE, panic |-> TRUE, flags |-> flags, pos |-> pos]
                  ELSE readFlags(b, Min(pos + 2, Len(b)), numPoints,
                                 flags \o [j \in 1..(1 + repeats) |-> flag])
             ELSE readFlags(b, pos + 1, numPoints, Append(flags, flag))

\* a coordinate loop of contour: shortBit and sameBit are 1 and 4 for X, 2 and 5 for Y
RECURSIVE readCoords(_, _, _, _, _, _, _)
readCoords(b, pos, flags, shortBit, sameBit, v, out) ==
    IF Len(out) >= Len(flags) THEN [ok |-> TRUE, coords |-> out, pos |-> pos]
    ELSE LET flag == flags[Len(out) + 1]
         IN  IF Bit(flag, shortBit)
             THEN IF Len(b) - pos < 1 THEN [ok |-> FALSE, coords |-> out, pos |-> pos]
                  ELSE LET nv == IF Bit(flag, sameBit) THEN I16(v + b[pos + 1])
                                 ELSE I16(v - b[pos + 1])
                       IN  readCoords(b, pos + 1, flags, shortBit, sameBit, nv, Append(out, nv))
             ELSE IF ~Bit(flag, sameBit)
             THEN IF Len(b) - pos < 2 THEN [ok |-> FALSE, coords |-> out, pos |-> pos]
                  ELSE LET nv == I16(v + I16(Uint16At(b, pos)))
                       IN  readCoords(b, pos + 2, flags, shortBit, sameBit, nv, Append(out, nv))
             ELSE readCoords(b, pos, flags, shortBit, sameBit, v, Append(out, v))

\* contour, simple glyph: b holds at least the 10 header bytes
simpleContour(b) ==
    LET numberOfContours == Uint16At(b, 0)
        EndPoints == [i \in 1..numberOfContours |-> Uint16At(b, 10 + 2 * (i - 1))]
        insAt == 10 + 2 * numberOfContours
        instructionLength == Uint16At(b, insAt)
        numPoints == EndPoints[numberOfContours] + 1
    IN  IF Len(b) - 10 < 2 * numberOfContours + 2 THEN ContourErr
        ELSE IF Len(b) - (insAt + 2) < instructionLength THEN ContourErr
        ELSE IF numberOfContours = 0 THEN ContourPanic
        ELSE
        With([fl \in {readFlags(b, insAt + 2 + instructionLength, numPoints, <<>>)} |->
          IF ~fl.ok THEN (IF fl.panic THEN ContourPanic ELSE ContourErr)
          ELSE
          With([xs \in {readCoords(b, fl.pos, fl.flags, 1, 4, 0, <<>>)} |->
            IF ~xs.ok THEN ContourErr
            ELSE
            With([ys \in {readCoords(b, xs.pos, fl.flags, 2, 5, 0, <<>>)} |->
              IF ~ys.ok THEN ContourErr
              ELSE [ok |-> TRUE, panic |-> FALSE,
                    XMin |-> I16(Uint16At(b, 2)), YMin |-> I16(Uint16At(b, 4)),
                    XMax |-> I16(Uint16At(b, 6)), YMax |-> I16(Uint16At(b, 8)),
                    EndPoints |-> EndPoints,
                    Instructions |-> Slice(b, insAt + 2, insAt + 2 + instructionLength),
                    OnCurve |-> [i \in 1..numPoints |-> Bit(fl.flags[i], 0)],
                    OverlapSimple |-> [i \in 1..numPoints |-> Bit(fl.flags[i], 6)],
                    XCoordinates |-> xs.coords, YCoordinates |-> ys.coords]])])])

\* int16((int64(v)*int64(t)+half)>>14) with half = 1<<13
ScaleRound(v, t) == I16((v * t + 8192) \div 16384)

RECURSIVE contour(_, _, _)
RECURSIVE compositeContour(_, _, _, _, _, _)
\* the trailing instructions of a composite glyph (WE_HAVE_INSTRUCTIONS); the
\* length is read unchecked, 0 when fewer than two bytes are left
compositeInstructions(b, pos, acc) ==
    LET instructionLength == IF Len(b) - pos < 2 THEN 0 ELSE Uint16At(b, pos)
        at == Min(pos + 2, Len(b))
    IN  IF Len(b) - at < instructionLength THEN ContourErr
        ELSE [acc EXCEPT !.Instructions = Slice(b, at, at + instructionLength)]

\* the component loop of contour: acc is the contour built so far
compositeContour(glyf, b, pos, level, acc, hasInstructions) ==
    IF Len(b) - pos < 4 THEN ContourErr
    ELSE LET flags == Uint16At(b, pos)
             subGlyphID == Uint16At(b, pos + 2)
             words == Bit(flags, 0)
             argLen == IF words THEN 4 ELSE 2
             I8(v) == IF v >= 128 THEN v - 256 ELSE v
             dx == IF words THEN I16(Uint16At(b, pos + 4)) ELSE I8(b[pos + 5])
             dy == IF words THEN I16(Uint16At(b, pos + 6)) ELSE I8(b[pos + 6])
             tAt == pos + 4 + argLen
             tLen == IF Bit(flags, 3) THEN 2 ELSE IF Bit(flags, 6) THEN 4
                     ELSE IF Bit(flags, 7) THEN 8 ELSE 0
             t(k) == I16(Uint16At(b, tAt + 2 * k))
             txx == IF tLen = 0 THEN 0 ELSE t(0)
             tyy == IF tLen = 2 THEN t(0) ELSE IF tLen = 4 THEN t(1)
                    ELSE IF tLen = 8 THEN t(3) ELSE 0
             txy == IF tLen = 8 THEN t(1) ELSE 0
             tyx == IF tLen = 8 THEN t(2) ELSE 0
             numPoints == IF acc.EndPoints = <<>> THEN 0
                          ELSE U16(acc.EndPoints[Len(acc.EndPoints)] + 1)
             hasT == Bit(flags, 3) \/ Bit(flags, 6) \/ Bit(flags, 7)
             px(sub, i) == IF hasT
                      THEN I16(ScaleRound(sub.XCoordinates[i], txx)
                               + ScaleRound(sub.YCoordinates[i], tyx))
                      ELSE sub.XCoordinates[i]
             py(sub, i) == IF hasT
                      THEN I16(ScaleRound(sub.XCoordinates[i], txy)
                               + ScaleRound(sub.YCoordinates[i], tyy))
                      ELSE sub.YCoordinates[i]
             next(sub) == [acc EXCEPT
                        !.EndPoints = @ \o [i \in 1..Len(sub.EndPoints) |->
                                               U16(numPoints + sub.EndPoints[i])],
                        !.OnCurve = @ \o sub.OnCurve,
                        !.OverlapSimple = @ \o sub.OverlapSimple,
                        !.XCoordinates = @ \o [i \in 1..Len(sub.XCoordinates) |->
                                                  I16(dx + px(sub, i))],
                        !.YCoordinates = @ \o [i \in 1..Len(sub.XCoordinates) |->
                                                  I16(dy + py(sub, i))]]
         IN  IF ~Bit(flags, 1) THEN ContourErr
             ELSE IF Len(b) - (pos + 4) < argLen + tLen THEN ContourErr
             ELSE With([sub \in {contour(glyf, subGlyphID, level + 1)} |->
                    IF ~sub.ok THEN sub
                    ELSE IF Bit(flags, 5)
                    THEN compositeContour(glyf, b, tAt + tLen, level, next(sub),
                                          hasInstructions \/ Bit(flags, 8))
                    ELSE IF hasInstructions \/ Bit(flags, 8)
                    THEN compositeInstructions(b, tAt + tLen, next(sub))
                    ELSE next(sub)])

contour(glyf, glyphID, level) ==
    With([b \in {glyfGet(glyf, glyphID)} |->
        IF b = None THEN ContourErr
        ELSE IF Len(b) = 0 THEN EmptyContour
        ELSE IF Len(b) < 10 THEN ContourErr
        ELSE IF b[1] < 128 THEN simpleContour(b)
        ELSE IF MaxCompositeLevel < level THEN ContourErr
        ELSE compositeContour(glyf, b, 10, level,
                 [EmptyContour EXCEPT
                     !.XMin = I16(Uint16At(b, 2)), !.YMin = I16(Uint16At(b, 4)),
                     !.XMax = I16(Uint16At(b, 6)), !.YMax = I16(Uint16At(b, 8))],
                 FALSE)])

Contour(glyf, glyphID) == contour(glyf, glyphID, 0)

\* Pather calls; coordinates are emitted doubled, so that midpoints stay integers
\* (ToPath is drawn with x = y = 0 and f = 1)
MoveTo(x, y) == <<"MoveTo", x, y>>
LineTo(x, y) == <<"LineTo", x, y>>
QuadTo(cx, cy, x, y) == <<"QuadTo", cx, cy, x, y>>
ClosePath == <<"Close">>

\* the point loop of ToPath for one contour, points j..endPoint (1-based), i the
\* running index; st = [first, firstOff, prevOff, startX, startY, calls]
RECURSIVE pathPoints(_, _, _, _)
pathPoints(c, i, endPoint, st) ==
    IF i > endPoint THEN st
    ELSE LET X(k) == c.XCoordinates[k]
             Y(k) == c.YCoordinates[k]
             midX == I16(X(i - 1) + X(i))
             midY == I16(Y(i - 1) + Y(i))
             nst ==
               IF st.first
               THEN IF c.OnCurve[i]
                    THEN [st EXCEPT !.startX = 2 * X(i), !.startY = 2 * Y(i), !.first = FALSE,
                                    !.calls = Append(@, MoveTo(2 * X(i), 2 * Y(i)))]
                    ELSE IF ~st.prevOff
                    THEN [st EXCEPT !.firstOff = TRUE, !.prevOff = TRUE]
                    ELSE [st EXCEPT !.startX = midX, !.startY = midY, !.first = FALSE,
                                    !.calls = Append(@, MoveTo(midX, midY))]
               ELSE IF ~st.prevOff
               THEN IF c.OnCurve[i]
                    THEN [st EXCEPT !.calls = Append(@, LineTo(2 * X(i), 2 * Y(i)))]
                    ELSE [st EXCEPT !.prevOff = TRUE]
               ELSE IF c.OnCurve[i]
                    THEN [st EXCEPT !.prevOff = FALSE,
                             !.calls = Append(@, QuadTo(2 * X(i - 1), 2 * Y(i - 1), 2 * X(i), 2 * Y(i)))]
                    ELSE [st EXCEPT
                             !.calls = Append(@, QuadTo(2 * X(i - 1), 2 * Y(i - 1), midX, midY))]
         IN  pathPoints(c, i + 1, endPoint, nst)

\* one contour of ToPath: points j..endPoint (1-based)
pathContour(c, j, endPoint) ==
    With([st \in {pathPoints(c, j, endPoint,
                  [first |-> TRUE, firstOff |-> FALSE, prevOff |-> FALSE,
                   startX |-> 0, startY |-> 0, calls |-> <<>>])} |->
    LET X(k) == c.XCoordinates[k]
        Y(k) == c.YCoordinates[k]
        last == IF j > endPoint THEN j - 1 ELSE endPoint
        tail ==
          IF st.firstOff
          THEN IF st.prevOff
               THEN << QuadTo(2 * X(last), 2 * Y(last), I16(X(last) + X(j)), I16(Y(last) + Y(j))),
                       QuadTo(2 * X(j), 2 * Y(j), st.startX, st.startY) >>
               ELSE << QuadTo(2 * X(j), 2 * Y(j), st.startX, st.startY) >>
          ELSE IF st.prevOff
          THEN << QuadTo(2 * X(last), 2 * Y(last), st.startX, st.startY) >>
          ELSE <<>>
    IN  st.calls \o tail \o <<ClosePath>>])

\* the contour loop of ToPath: i (1-based) runs on from one contour to the next
RECURSIVE pathContours(_, _, _)
pathContours(c, k, i) ==
    IF k > Len(c.EndPoints) THEN <<>>
    ELSE LET endPoint == c.EndPoints[k] + 1
         IN  pathContour(c, i, endPoint)
               \o pathContours(c, k + 1, IF i > endPoint THEN i ELSE endPoint + 1)

\* glyfTable.ToPath: [ok, calls]
ToPath(glyf, glyphID) ==
    With([c \in {Contour(glyf, glyphID)} |->
        IF ~c.ok THEN [ok |-> FALSE, calls |-> <<>>]
        ELSE [ok |-> TRUE, calls |-> pathContours(c, 1, 1)]])

(***************************************************************************)
(* Parsed views of the tables (parseSFNT and the per-table parsers)        *)
(***************************************************************************)
\* a nil view pointer (the table is absent)
Nil == [nil |-> TRUE]

Uint8ToFlags(v) == [i \in 1..8 |-> Bit(v, i - 1)]
flagsToUint8(flags) == SeqSum([i \in 1..8 |-> IF flags[i] THEN Pow2(i - 1) ELSE 0])

\* table bodies with the fields the parsers read; every other field is zero
MaxpBytes(numGlyphs) == BE32W(<<1, 0>>) \o BE16(numGlyphs) \o Zeros(26)
HheaBytes(numberOfHMetrics) == BE16(1) \o BE16(0) \o Zeros(30) \o BE16(numberOfHMetrics)
OS2Bytes(words) ==
    BE16(0) \o Zeros(40) \o Flatten([i \in 1..4 |-> BE32W(words[i])]) \o Zeros(10)
PostBytes == BE32W(<<3, 0>>) \o Zeros(28)

parseHead(b) == [IndexToLocFormat |-> I16(Uint16At(b, 50))]
parseMaxp(b) == [NumGlyphs |-> Uint16At(b, 4)]
parseHhea(b) == [NumberOfHMetrics |-> Uint16At(b, 34)]
parseLoca(b, head) == [Format |-> head.IndexToLocFormat, data |-> b]
parseGlyf(b) == [data |-> b]
parseOS2(b) == [UlUnicodeRange |-> [i \in 1..4 |-> Uint32At(b, 42 + 4 * (i - 1))]]
\* post version 3.0: no glyph names
parsePost(b) == [NumGlyphs |-> 0]

parseHmtx(b, numberOfHMetrics, numGlyphs) ==
    [HMetrics |-> [i \in 1..numberOfHMetrics |->
                     [AdvanceWidth |-> Uint16At(b, 4 * (i - 1)),
                      LeftSideBearing |-> I16(Uint16At(b, 4 * (i - 1) + 2))]],
     LeftSideBearings |-> [i \in 1..(numGlyphs - numberOfHMetrics) |->
                     I16(Uint16At(b, 4 * numberOfHMetrics + 2 * (i - 1)))]]

\* hmtxTable.LeftSideBearing and hmtxTable.Advance
LeftSideBearing(hmtx, glyphID) ==
    IF Len(hmtx.HMetrics) <= glyphID
    THEN hmtx.LeftSideBearings[glyphID - Len(hmtx.HMetrics) + 1]
    ELSE hmtx.HMetrics[glyphID + 1].LeftSideBearing

Advance(hmtx, glyphID) ==
    IF Len(hmtx.HMetrics) <= glyphID
    THEN hmtx.HMetrics[Len(hmtx.HMetrics)].AdvanceWidth
    ELSE hmtx.HMetrics[glyphID + 1].AdvanceWidth

\* kern pair keys are uint32(left)<<16 | right, kept as <<left, right>>
KeyLess(a, b) == a[1] < b[1] \/ (a[1] = b[1] /\ a[2] < b[2])

\* sort.SliceStable by key
RECURSIVE SortPairs(_)
SortPairs(pairs) ==
    IF pairs = <<>> THEN <<>>
    ELSE LET i == CHOOSE i \in 1..Len(pairs) :
                    /\ \A j \in 1..Len(pairs) : ~KeyLess(pairs[j].Key, pairs[i].Key)
                    /\ \A j \in 1..(i - 1) : KeyLess(pairs[i].Key, pairs[j].Key)
         IN  <<pairs[i]>> \o SortPairs(SubSeq(pairs, 1, i - 1) \o SubSeq(pairs, i + 1, Len(pairs)))

\* parseKern for a version 0 table of version 0, format 0 subtables: [ok, Subtables]
RECURSIVE parseKernSubtables(_, _, _)
parseKernSubtables(b, pos, nTables) ==
    IF nTables = 0 THEN [ok |-> TRUE, Subtables |-> <<>>]
    ELSE IF Len(b) - pos < 14 THEN [ok |-> FALSE, Subtables |-> <<>>]
    ELSE LET length == Uint16At(b, pos + 2)
             Coverage == Uint8ToFlags(b[pos + 6])
             nPairs == Uint16At(b, pos + 6)
             Pairs == [i \in 1..nPairs |->
                         [Key |-> Uint32At(b, pos + 14 + 6 * (i - 1)),
                          Value |-> I16(Uint16At(b, pos + 14 + 6 * (i - 1) + 4))]]
             sorted == \A i \in 2..nPairs : KeyLess(Pairs[i - 1].Key, Pairs[i].Key)
             rest == parseKernSubtables(b, pos + length, nTables - 1)
         IN  IF length # 14 + 6 * nPairs \/ Len(b) - pos < length
             THEN [ok |-> FALSE, Subtables |-> <<>>]
             ELSE IF ~rest.ok THEN rest
             ELSE [ok |-> TRUE,
                   Subtables |-> << [Coverage |-> Coverage,
                                     Pairs |-> IF sorted THEN Pairs ELSE SortPairs(Pairs)] >>
                                 \o rest.Subtables]

parseKern(b) ==
    IF Len(b) < 4 \/ Uint16At(b, 0) # 0 THEN [ok |-> FALSE, Subtables |-> <<>>]
    ELSE parseKernSubtables(b, 4, Uint16At(b, 2))

\* kernTable.Write; subtables are never empty here (Log2 of 0 pairs is out of range)
kernWrite(kern) ==
    BE16(0) \o BE16(Len(kern.Subtables))
    \o Flatten([k \in 1..Len(kern.Subtables) |->
         LET subtable == kern.Subtables[k]
             nPairs == U16(Len(subtable.Pairs))
             entrySelector == Log2Floor(nPairs)
             searchRange == U16(Pow2(entrySelector) * 6)
         IN  BE16(0) \o BE16(U16(6 + 8 + 6 * nPairs))
             \o <<0, flagsToUint8(subtable.Coverage)>>
             \o BE16(nPairs) \o BE16(searchRange) \o BE16(entrySelector)
             \o BE16(U16(nPairs * 6 - searchRange))
             \o Flatten([i \in 1..Len(subtable.Pairs) |->
                   BE32W(subtable.Pairs[i].Key) \o BE16(U16(subtable.Pairs[i].Value))])])

\* NumGlyphs
NumGlyphs(f) == f.Maxp.NumGlyphs

\* the glyf view reads its offsets through the font's loca view (a shared pointer)
GlyfOf(f) == [data |-> f.Glyf.data, loca |-> f.Loca]

\* parseSFNT for a TrueType font whose tables are well formed: the tables and
\* their parsed views
parseSFNT(tables) ==
    LET head == parseHead(tables["head"])
        maxp == parseMaxp(tables["maxp"])
        hhea == parseHhea(tables["hhea"])
    IN  [IsTrueType |-> TRUE, IsCFF |-> FALSE, Tables |-> tables,
         Head |-> head, Maxp |-> maxp, Hhea |-> hhea,
         Loca |-> parseLoca(tables["loca"], head),
         Glyf |-> parseGlyf(tables["glyf"]),
         Hmtx |-> parseHmtx(tables["hmtx"], hhea.NumberOfHMetrics, maxp.NumGlyphs),
         Cmap |-> parseCmap(tables["cmap"], maxp.NumGlyphs),
         Kern |-> IF "kern" \in DOMAIN tables THEN parseKern(tables["kern"]) ELSE Nil,
         OS2 |-> IF "OS/2" \in DOMAIN tables THEN parseOS2(tables["OS/2"]) ELSE Nil,
         Post |-> parsePost(tables["post"])]

\* a parsed CFF font, of which only the flavour is read
CFFFont ==
    [IsTrueType |-> FALSE, IsCFF |-> TRUE,
     Tables |-> [t \in {"CFF ", "maxp"} |-> IF t = "maxp" THEN BE32(20480) \o BE16(2)
                                            ELSE <<1, 0, 4, 1>>],
     Maxp |-> [NumGlyphs |-> 2]]

(***************************************************************************)
(* Glyph data and font tables the operations are run on                    *)
(***************************************************************************)
\* a simple glyph: one contour of three on-curve points (0,0), (w,0), (0,w)
Triangle(w) ==
    BE16(1) \o BE16(0) \o BE16(0) \o BE16(w) \o BE16(w)
    \o BE16(2) \o BE16(0) \o <<55, 55, 39>> \o <<0, w, w>> \o <<0, 0, w>> \o <<0>>

\* a simple glyph: one contour on (0,0), off (w,0), off (w,w), on (0,w)
Curve(w) ==
    BE16(1) \o BE16(0) \o BE16(0) \o BE16(w) \o BE16(w)
    \o BE16(3) \o BE16(0) \o <<55, 54, 54, 39>> \o <<0, w, 0, w>> \o <<0, 0, w, 0>>

\* a composite glyph of one component placed at (dx, dy), arguments as bytes
Composite(subGlyphID, dx, dy) ==
    BE16(65535) \o BE16(0) \o BE16(0) \o BE16(100) \o BE16(100)
    \o BE16(2) \o BE16(subGlyphID) \o <<dx, dy>>

\* a composite glyph of two components
Composite2(sub1, sub2, dx, dy) ==
    BE16(65535) \o BE16(0) \o BE16(0) \o BE16(100) \o BE16(100)
    \o BE16(34) \o BE16(sub1) \o <<0, 0>>
    \o BE16(2) \o BE16(sub2) \o <<dx, dy>>

\* the loca offsets of a sequence of glyph payloads
GlyphOffsets(glyphs) ==
    [i \in 1..(Len(glyphs) + 1) |-> SeqSum([j \in 1..(i - 1) |-> Len(glyphs[j])])]

LocaBytes(glyphs, format) ==
    Flatten([i \in 1..(Len(glyphs) + 1) |->
               IF format = 0 THEN BE16(GlyphOffsets(glyphs)[i] \div 2)
               ELSE BE32(GlyphOffsets(glyphs)[i])])

HmtxBytes(advances, lsbs) ==
    Flatten([i \in 1..Len(advances) |-> BE16(advances[i]) \o BE16(U16(lsbs[i]))])

\* the runes of a set in ascending order
RECURSIVE RunesOf(_)
RunesOf(S) ==
    IF S = {} THEN <<>>
    ELSE LET m == CHOOSE x \in S : \A y \in S : x <= y
         IN  <<m>> \o RunesOf(S \ {m})

\* the tables of a TrueType font: glyph payloads, loca format, one advance and
\* left side bearing per glyph, the cmap as rune -> glyph, kern subtables, the
\* four ulUnicodeRange words
FontTables(glyphs, format, advances, lsbs, runeMap, kern, words) ==
    LET rs == RunesOf(DOMAIN runeMap)
        tags == {"OS/2", "cmap", "glyf", "head", "hhea", "hmtx", "loca", "maxp",
                 "name", "post"} \cup (IF kern = <<>> THEN {} ELSE {"kern"})
    IN  [t \in tags |->
           CASE t = "OS/2" -> OS2Bytes(words)
             [] t = "cmap" -> cmapWrite(rs, runeMap)
             [] t = "glyf" -> Flatten(glyphs)
             [] t = "head" -> HeadBytes(<<0, 0>>, 0, format)
             [] t = "hhea" -> HheaBytes(Len(glyphs))
             [] t = "hmtx" -> HmtxBytes(advances, lsbs)
             [] t = "kern" -> kernWrite([Subtables |-> kern])
             [] t = "loca" -> LocaBytes(glyphs, format)
             [] t = "maxp" -> MaxpBytes(Len(glyphs))
             [] t = "name" -> <<0, 0, 0, 0, 0, 6>>
             [] t = "post" -> PostBytes]

(***************************************************************************)
(* SFNT.Merge: the receiver after the call and how the call ended          *)
(***************************************************************************)
\* the 2-argument cmapWriteFormat12 that Merge calls: a cmap table holding one
\* format 12 subtable over the sorted runes
cmapWriteFormat12Table(rs, runeMap) ==
    IF Len(rs) = 0 THEN <<0, 0, 0, 0>>
    ELSE BE16(0) \o BE16(2)
         \o BE16(0) \o BE16(4) \o BE32(20) \o BE16(3) \o BE16(10) \o BE32(20)
         \o cmapWriteFormat12(SortRunes(rs), runeMap)

\* update maxp table
mergeMaxp(f, numGlyphs) ==
    IF Has(f, "maxp")
    THEN [f EXCEPT !.Maxp.NumGlyphs = numGlyphs,
                   !.Tables["maxp"] = Put(@, 4, BE16(numGlyphs))]
    ELSE f

\* the component loop that rewrites the glyph ids of one appended composite
RECURSIVE patchComposite(_, _, _, _)
patchComposite(glyf, start, offset, origNumGlyphs) ==
    LET flags == Uint16At(glyf, start + offset)
        subGlyphID == Uint16At(glyf, start + offset + 2)
        patched == Put(glyf, start + offset + 2, BE16(U16(origNumGlyphs + subGlyphID - 1)))
        cl == glyfCompositeLength(flags)
    IN  IF ~cl.more THEN patched
        ELSE patchComposite(patched, start, offset + cl.length, origNumGlyphs)

\* the glyph loop over the secondary's glyphs 1..NumGlyphs-1
RECURSIVE patchComposites(_, _, _, _, _, _)
patchComposites(glyf, f2, glyphID, startGlyf, firstGlyf, origNumGlyphs) ==
    IF glyphID >= NumGlyphs(f2) THEN glyf
    ELSE patchComposites(
           IF IsComposite(GlyfOf(f2), glyphID)
           THEN patchComposite(glyf, locaGet(f2.Loca, glyphID).off + startGlyf - firstGlyf,
                               10, origNumGlyphs)
           ELSE glyf,
           f2, glyphID + 1, startGlyf, firstGlyf, origNumGlyphs)

\* the merged glyf data
mergeGlyf(f, f2, origNumGlyphs) ==
    LET firstGlyf == locaGet(f2.Loca, 1).off
        glyf == f.Tables["glyf"]
    IN  patchComposites(glyf \o From(f2.Tables["glyf"], firstGlyf), f2, 1,
                        Len(glyf), firstGlyf, origNumGlyphs)

\* the rebuilt loca: [format, data]; old is the receiver before glyf was extended
mergeLoca(old, f2, glyf, origNumGlyphs, numGlyphs) ==
    LET firstGlyf == locaGet(f2.Loca, 1).off
        startGlyf == Len(old.Tables["glyf"])
        indexToLocFormat == IF Len(glyf) <= MaxUint16 THEN 0 ELSE 1
        same == indexToLocFormat = old.Loca.Format
        first == IF same THEN origNumGlyphs ELSE 0
        offset(glyphID) ==
            IF glyphID < origNumGlyphs THEN locaGet(old.Loca, glyphID).off
            ELSE locaGet(f2.Loca, U16(1 + glyphID - origNumGlyphs + 1)).off
                 + startGlyf - firstGlyf
        entry(glyphID) ==
            IF indexToLocFormat = 0 THEN BE16(U16(offset(glyphID) \div 2))
            ELSE BE32(offset(glyphID))
    IN  [format |-> indexToLocFormat,
         changed |-> ~same,
         data |-> (IF same THEN old.Tables["loca"] ELSE <<>>)
                  \o Flatten([k \in 1..(numGlyphs - first) |-> entry(first + k - 1)])]

\* the subtable appended for one secondary kern subtable; a skipped pair leaves
\* the zero value of its slot
mergeKernSubtable(subtable, origNumGlyphs) ==
    LET offset == <<U16(origNumGlyphs - 1), U16(origNumGlyphs - 1)>>
    IN  [Coverage |-> subtable.Coverage,
         Pairs |-> [i \in 1..Len(subtable.Pairs) |->
            LET pair == subtable.Pairs[i]
            IN  IF pair.Key[2] % 16 = 0 \/ (pair.Key[2] \div 16) % 16 = 0
                THEN [Key |-> <<0, 0>>, Value |-> 0]
                ELSE [Key |-> Add32(offset, pair.Key), Value |-> pair.Value]]]

\* glyf, loca, head and kern of a TrueType receiver: [font, status]
mergeTrueType(f, f2, origNumGlyphs, numGlyphs) ==
    LET f1(glyf) == [f EXCEPT !.Tables["glyf"] = glyf, !.Glyf.data = glyf]
        f2h(glyf, loca) ==
            IF loca.changed /\ Has(f, "head")
            THEN [f1(glyf) EXCEPT !.Tables["head"] = Put(@, 50, BE16(loca.format)),
                                  !.Head.IndexToLocFormat = loca.format]
            ELSE f1(glyf)
        f3(glyf, loca) ==
            [f2h(glyf, loca) EXCEPT !.Tables["loca"] = loca.data,
                                    !.Loca = [Format |-> loca.format, data |-> loca.data]]
        kern == [Subtables |-> f.Kern.Subtables
                    \o [k \in 1..Len(f2.Kern.Subtables) |->
                          mergeKernSubtable(f2.Kern.Subtables[k], origNumGlyphs)]]
    IN  IF ~Has(f, "glyf") \/ ~Has(f2, "glyf") \/ ~Has(f, "loca") \/ ~Has(f2, "loca")
        THEN [font |-> f, status |-> "error"]
        ELSE
        With([glyf \in {mergeGlyf(f, f2, origNumGlyphs)} |->
          With([loca \in {mergeLoca(f, f2, glyf, origNumGlyphs, numGlyphs)} |->
            With([g \in {f3(glyf, loca)} |->
              IF ~Has(g, "kern") THEN [font |-> g, status |-> "ok"]
              ELSE IF f2.Kern = Nil THEN [font |-> g, status |-> "panic"]
              ELSE With([k \in {kern} |->
                     [font |-> IF 0 < Len(k.Subtables)
                               THEN [g EXCEPT !.Kern = [ok |-> TRUE, Subtables |-> k.Subtables],
                                              !.Tables["kern"] = kernWrite(k)]
                               ELSE g,
                      status |-> "ok"]])])])])

\* a compaction loop that keeps one long metric per glyph
compactHMetricsNone(advances, numberOfHMetrics) == numberOfHMetrics

\* the compaction loop: trailing equal advances share the last long metric
RECURSIVE compactHMetrics(_, _)
compactHMetrics(advances, numberOfHMetrics) ==
    IF 1 < numberOfHMetrics /\ advances[numberOfHMetrics] = advances[numberOfHMetrics - 1]
    THEN compactHMetrics(advances, numberOfHMetrics - 1)
    ELSE numberOfHMetrics

\* hmtx and hhea.numberOfHMetrics of the receiver
mergeHmtx(f, f2, origNumGlyphs, numGlyphs) ==
    LET hmtx(lsbs, advances, numberOfHMetrics) ==
                [HMetrics |-> [k \in 1..numberOfHMetrics |->
                                 [AdvanceWidth |-> advances[k], LeftSideBearing |-> lsbs[k]]],
                 LeftSideBearings |-> SubSeq(lsbs, numberOfHMetrics + 1, numGlyphs)]
        bytes(lsbs, advances, numberOfHMetrics) ==
                Flatten([k \in 1..numGlyphs |->
                    (IF k - 1 < numberOfHMetrics THEN BE16(advances[k]) ELSE <<>>)
                    \o BE16(U16(lsbs[k]))])
    IN  IF ~Has(f, "hmtx") THEN f
        ELSE
        With([lsbs \in {[k \in 1..numGlyphs |->
                IF k - 1 < origNumGlyphs THEN LeftSideBearing(f.Hmtx, k - 1)
                ELSE LeftSideBearing(f2.Hmtx, U16(U16(1 + (k - 1)) - origNumGlyphs))]} |->
          With([advances \in {[k \in 1..numGlyphs |->
                  IF k - 1 < origNumGlyphs THEN Advance(f.Hmtx, k - 1)
                  ELSE Advance(f2.Hmtx, U16(U16(1 + (k - 1)) - origNumGlyphs))]} |->
            With([numberOfHMetrics \in {compactHMetrics(advances, numGlyphs)} |->
              With([f1 \in {[f EXCEPT !.Hmtx = hmtx(lsbs, advances, numberOfHMetrics),
                             !.Tables["hmtx"] = bytes(lsbs, advances, numberOfHMetrics)]} |->
                IF Has(f1, "hhea")
                THEN [f1 EXCEPT !.Tables["hhea"] = Put(@, 34, BE16(numberOfHMetrics)),
                                !.Hhea.NumberOfHMetrics = numberOfHMetrics]
                ELSE f1])])])])

\* the rune loop of the merged cmap: [ok, rs, runeMap]; not ok when a rune is
\* met for a second time
RECURSIVE mergeRunes(_, _, _, _, _, _)
mergeRunes(f, f2, glyphID, origNumGlyphs, numGlyphs, acc) ==
    IF glyphID >= numGlyphs THEN acc
    ELSE LET r == IF glyphID < origNumGlyphs THEN cmapToUnicode(f.Cmap, glyphID)
                  ELSE cmapToUnicode(f2.Cmap, U16(U16(1 + glyphID) - origNumGlyphs))
         IN  IF r = 0
             THEN mergeRunes(f, f2, glyphID + 1, origNumGlyphs, numGlyphs, acc)
             ELSE IF r \in DOMAIN acc.runeMap
             THEN [acc EXCEPT !.ok = FALSE]
             ELSE mergeRunes(f, f2, glyphID + 1, origNumGlyphs, numGlyphs,
                             [ok |-> TRUE, rs |-> Append(acc.rs, r),
                              runeMap |-> (r :> glyphID) @@ acc.runeMap])

\* cmap of the receiver: [font, status]
mergeCmap(f, f2, IdentityCmap, origNumGlyphs, numGlyphs) ==
    LET runes == IF IdentityCmap
             THEN [ok |-> TRUE, rs |-> [k \in 1..numGlyphs |-> k - 1],
                   runeMap |-> [r \in 0..(numGlyphs - 1) |-> r]]
             ELSE mergeRunes(f, f2, 0, origNumGlyphs, numGlyphs,
                             [ok |-> TRUE, rs |-> <<>>, runeMap |-> <<>>])
    IN  IF ~Has(f, "cmap") THEN [font |-> f, status |-> "ok"]
        ELSE
        With([m \in {runes} |->
          IF ~m.ok THEN [font |-> f, status |-> "error"]
          ELSE
          With([bytes \in {cmapWriteFormat12Table(m.rs, m.runeMap)} |->
            With([cmap \in {parseCmap(bytes, NumGlyphs(f))} |->
              IF cmap = CmapErr
              THEN [font |-> [f EXCEPT !.Tables["cmap"] = bytes], status |-> "error"]
              ELSE [font |-> [f EXCEPT !.Tables["cmap"] = bytes, !.Cmap = cmap],
                    status |-> "ok"]])])])

Or32(a, b) == <<BitOr(a[1], b[1]), BitOr(a[2], b[2])>>

\* OS/2 of the receiver: [font, status]
mergeOS2(f, f2) ==
    LET words == [i \in 1..4 |-> Or32(f.OS2.UlUnicodeRange[i], f2.OS2.UlUnicodeRange[i])]
    IN  IF ~Has(f, "OS/2") THEN [font |-> f, status |-> "ok"]
        ELSE IF f2.OS2 = Nil THEN [font |-> f, status |-> "panic"]
        ELSE [font |-> [f EXCEPT !.OS2.UlUnicodeRange = words,
                          !.Tables["OS/2"] = Put(@, 42, Flatten([i \in 1..4 |-> BE32W(words[i])]))],
              status |-> "ok"]

\* Merge: [font, status], the receiver as the call leaves it and "ok" for a nil
\* return, "error" for a returned error, "panic" for a nil dereference.  The post
\* tables hold no glyph names (NumGlyphs = 0), so post is left alone.
Merge(f, f2, IdentityCmap) ==
    IF f.IsTrueType # f2.IsTrueType \/ f.IsCFF # f2.IsCFF
    THEN [font |-> f, status |-> "error"]
    ELSE IF MaxUint16 - NumGlyphs(f) < NumGlyphs(f2)
    THEN [font |-> f, status |-> "error"]
    ELSE IF NumGlyphs(f2) < 2
    THEN [font |-> f, status |-> "ok"]
    ELSE LET origNumGlyphs == NumGlyphs(f)
             numGlyphs == U16(origNumGlyphs + NumGlyphs(f2) - 1)
         IN  With([a \in {mergeTrueType(mergeMaxp(f, numGlyphs), f2, origNumGlyphs, numGlyphs)} |->
               IF a.status # "ok" THEN a
               ELSE With([b \in {mergeCmap(mergeHmtx(a.font, f2, origNumGlyphs, numGlyphs), f2,
                                   IdentityCmap, origNumGlyphs, numGlyphs)} |->
                      IF b.status # "ok" THEN b
                      ELSE mergeOS2(b.font, f2)])])

(***************************************************************************)
(* SFNT.Subset: the new font, the receiver after the call and how the call *)
(* ended                                                                    *)
(***************************************************************************)
\* kernFormat0.Get: binary search over the pairs, 0 when the key is not met
RECURSIVE kernSearch(_, _, _, _)
kernSearch(Pairs, key, lo, hi) ==
    IF ~(lo < hi) THEN 0
    ELSE LET mid == (lo + hi) \div 2
             pair == Pairs[mid + 1]
         IN  IF KeyLess(pair.Key, key) THEN kernSearch(Pairs, key, mid + 1, hi)
             ELSE IF KeyLess(key, pair.Key) THEN kernSearch(Pairs, key, lo, mid)
             ELSE pair.Value

kernGet(subtable, l, r) == kernSearch(subtable.Pairs, <<l, r>>, 0, Len(subtable.Pairs))

\* the else-if chain of os2UlUnicodeRangeBit: <<limit, bit>>, the first limit
\* above the rune decides
UnicodeRangeLimits ==
    << <<128, 0>>, <<256, 1>>, <<384, 2>>, <<592, 3>>, <<688, 4>>,
       <<768, 5>>, <<880, 6>>, <<1024, 7>>, <<1280, 9>>, <<1328, -1>>,
       <<1424, 10>>, <<1536, 11>>, <<1792, 13>>, <<1872, 71>>, <<1920, -1>>,
       <<1984, 72>>, <<2048, 14>>, <<2304, -1>>, <<2432, 15>>, <<2560, 16>>,
       <<2688, 17>>, <<2816, 18>>, <<2944, 19>>, <<3072, 20>>, <<3200, 21>>,
       <<3328, 22>>, <<3456, 23>>, <<3584, 73>>, <<3712, 24>>, <<3840, 25>>,
       <<4096, 70>>, <<4256, 74>>, <<4352, 26>>, <<4608, 28>>, <<4992, 75>>,
       <<5024, -1>>, <<5120, 76>>, <<5760, 77>>, <<5792, 78>>, <<5888, 79>>,
       <<5920, 84>>, <<6016, -1>>, <<6144, 80>>, <<6320, 81>>, <<6400, -1>>,
       <<6480, 93>>, <<6528, 94>>, <<6624, 95>>, <<6656, -1>>, <<6688, 96>>,
       <<6912, -1>>, <<7040, 27>>, <<7104, 112>>, <<7168, -1>>,
       <<7248, 113>>, <<7296, 114>>, <<7680, -1>>, <<7936, 29>>,
       <<8192, 30>>, <<8304, 31>>, <<8352, 32>>, <<8400, 33>>, <<8448, 34>>,
       <<8528, 35>>, <<8592, 36>>, <<8704, 37>>, <<8960, 38>>, <<9216, 39>>,
       <<9280, 40>>, <<9312, 41>>, <<9472, 42>>, <<9600, 43>>, <<9632, 44>>,
       <<9728, 45>>, <<9984, 46>>, <<10176, 47>>, <<10240, -1>>,
       <<10496, 82>>, <<11264, -1>>, <<11360, 97>>, <<11392, -1>>,
       <<11520, 8>>, <<11568, -1>>, <<11648, 98>>, <<12288, -1>>,
       <<12352, 48>>, <<12448, 49>>, <<12544, 50>>, <<12592, 51>>,
       <<12688, 52>>, <<12800, -1>>, <<13056, 54>>, <<13312, 55>>,
       <<12736, -1>>, <<12784, 61>>, <<19904, -1>>, <<19968, 99>>,
       <<40960, 59>>, <<42128, 83>>, <<42240, -1>>, <<42560, 12>>,
       <<43008, -1>>, <<43056, 100>>, <<43072, -1>>, <<43136, 53>>,
       <<43232, 115>>, <<43264, -1>>, <<43312, 116>>, <<43360, 117>>,
       <<43520, -1>>, <<43616, 118>>, <<44032, -1>>, <<55215, 56>>,
       <<3584, -1>>, <<63744, 60>>, <<64256, -1>>, <<64336, 62>>,
       <<65024, 63>>, <<65040, 91>>, <<65056, 65>>, <<65072, 64>>,
       <<65104, -1>>, <<65136, 66>>, <<65280, 67>>, <<65520, 68>>,
       <<65536, 69>>, <<65664, 101>>, <<65856, -1>>, <<65936, 102>>,
       <<66000, 119>>, <<66048, 120>>, <<66208, -1>>, <<66272, 121>>,
       <<66304, -1>>, <<66352, 85>>, <<66384, 86>>, <<66432, -1>>,
       <<66464, 103>>, <<66528, 104>>, <<66560, -1>>, <<66640, 87>>,
       <<66688, 105>>, <<66736, 106>>, <<67584, -1>>, <<67648, 107>>,
       <<68096, -1>>, <<68192, 108>>, <<73728, -1>>, <<74752, 110>>,
       <<118784, -1>>, <<119040, 88>>, <<119552, -1>>, <<119648, 109>>,
       <<119680, 111>>, <<119808, -1>>, <<120832, 89>>, <<127024, -1>>,
       <<127136, 122>>, <<917504, -1>>, <<917632, 92>>, <<983040, -1>>,
       <<1048574, 90>> >>

os2UlUnicodeRangeBit(r) ==
    LET hit == {k \in 1..Len(UnicodeRangeLimits) : r < UnicodeRangeLimits[k][1]}
    IN  IF hit = {} THEN -1
        ELSE UnicodeRangeLimits[CHOOSE k \in hit : \A j \in hit : k <= j][2]

\* uint32(2) << s as <<hi, lo>>
Shl2(s) ==
    IF s < 15 THEN <<0, Pow2(s + 1)>>
    ELSE IF s < 31 THEN <<Pow2(s - 15), 0>>
    ELSE <<0, 0>>

\* os2UlUnicodeRange: the four words v[0..3], kept as v[1..4]
RECURSIVE os2UlUnicodeRange(_)
os2UlUnicodeRange(rs) ==
    IF rs = <<>> THEN <<<<0, 0>>, <<0, 0>>, <<0, 0>>, <<0, 0>>>>
    ELSE LET r == rs[Len(rs)]
             bit == os2UlUnicodeRangeBit(r)
             i == bit \div 32
         IN  With([v \in {os2UlUnicodeRange(SubSeq(rs, 1, Len(rs) - 1))} |->
               With([v1 \in {IF bit # -1
                    THEN [v EXCEPT ![3 - i + 1] = Or32(@, Shl2(bit - i * 32))]
                    ELSE v} |->
                      IF 65536 <= r /\ r < 1114112
                      THEN [v1 EXCEPT ![3] = Or32(@, Shl2(25))]
                      ELSE v1])])

\* glyphMap: every id of the list to its last position, counted from 0
glyphMapOf(glyphIDs) ==
    [g \in Range(glyphIDs) |->
       (CHOOSE i \in 1..Len(glyphIDs) :
           glyphIDs[i] = g /\ \A j \in (i + 1)..Len(glyphIDs) : glyphIDs[j] # g) - 1]

\* a dependency loop that appends nothing
addDependenciesNone(deps, k, acc) == acc

\* the loop over deps[1:]: ids not yet mapped are appended; acc = [ok, glyphIDs, glyphMap]
RECURSIVE addDependencies(_, _, _)
addDependencies(deps, k, acc) ==
    IF k > Len(deps) THEN acc
    ELSE addDependencies(deps, k + 1,
           IF deps[k] \in DOMAIN acc.glyphMap THEN acc
           ELSE [ok |-> TRUE,
                 glyphIDs |-> Append(acc.glyphIDs, deps[k]),
                 glyphMap |-> (deps[k] :> Len(acc.glyphIDs)) @@ acc.glyphMap])

\* the loop over the given ids that adds the dependencies of composite glyphs
RECURSIVE subsetDependencies(_, _, _, _)
subsetDependencies(f, i, origLen, acc) ==
    IF i > origLen THEN acc
    ELSE IF acc.glyphIDs[i] = 0 THEN subsetDependencies(f, i + 1, origLen, acc)
    ELSE With([d \in {Dependencies(GlyfOf(f), acc.glyphIDs[i])} |->
           IF ~d.ok THEN [acc EXCEPT !.ok = FALSE]
           ELSE With([next \in {addDependencies(d.deps, 2, acc)} |->
                  subsetDependencies(f, i + 1, origLen, next)])])

\* the glyph list and glyph map Subset works with: [ok, glyphIDs, glyphMap]
subsetGlyphIDs(f, glyphIDs) ==
    LET acc == [ok |-> TRUE, glyphIDs |-> glyphIDs, glyphMap |-> glyphMapOf(glyphIDs)]
    IN  IF f.IsTrueType THEN subsetDependencies(f, 1, Len(glyphIDs), acc) ELSE acc

\* the tables to include, after sort.Strings
subsetTags(f, Tables) ==
    SortTags(
      IF Tables = <<"min">>
      THEN {"DSIG", "cmap", "head", "hhea", "hmtx", "maxp", "name", "OS/2", "post"}
           \cup (IF f.IsTrueType THEN {"glyf", "loca"}
                 ELSE IF f.IsCFF THEN {"CFF "} ELSE {})
      ELSE IF Tables = <<"pdf">>
      THEN IF f.IsTrueType
           THEN {"DSIG", "glyf", "head", "hhea", "hmtx", "loca", "maxp"}
                \cup ({"cvt ", "fpgm", "prep"} \cap DOMAIN f.Tables)
           ELSE IF f.IsCFF
           THEN {"DSIG", "cmap", "CFF ", "head", "hhea", "hmtx", "maxp"}
           ELSE {}
      ELSE IF Tables = <<"all">> THEN DOMAIN f.Tables
      ELSE Range(Tables))

\* numberOfHMetrics: trailing equal advances share the last long metric
RECURSIVE subsetHMetrics(_, _)
subsetHMetrics(advances, numberOfHMetrics) ==
    IF 1 < numberOfHMetrics /\ advances[numberOfHMetrics] = advances[numberOfHMetrics - 1]
    THEN subsetHMetrics(advances, numberOfHMetrics - 1)
    ELSE numberOfHMetrics

\* a point writer that takes every coordinate as a delta from the origin
subsetPointAbsolute(c, i) ==
    [flag |-> (IF c.OnCurve[i] THEN 1 ELSE 0) + (IF c.OverlapSimple[i] THEN 64 ELSE 0),
     xs |-> BE16(U16(c.XCoordinates[i])),
     ys |-> BE16(U16(c.YCoordinates[i]))]

\* the flag byte and the coordinate bytes of point i of a simple glyph
subsetPoint(c, i) ==
    LET dx == I16(c.XCoordinates[i]
                  - (IF 1 < i THEN c.XCoordinates[i - 1] ELSE 0))
        dy == I16(c.YCoordinates[i]
                  - (IF 1 < i THEN c.YCoordinates[i - 1] ELSE 0))
        xShort == dx # 0 /\ -256 < dx /\ dx < 256
        yShort == dy # 0 /\ -256 < dy /\ dy < 256
    IN  [flag |-> (IF c.OnCurve[i] THEN 1 ELSE 0)
                  + (IF xShort THEN 2 ELSE 0)
                  + (IF yShort THEN 4 ELSE 0)
                  + (IF dx = 0 \/ (xShort /\ 0 < dx) THEN 16 ELSE 0)
                  + (IF dy = 0 \/ (yShort /\ 0 < dy) THEN 32 ELSE 0)
                  + (IF c.OverlapSimple[i] THEN 64 ELSE 0),
         xs |-> IF dx = 0 THEN <<>>
                ELSE IF xShort THEN <<IF 0 < dx THEN dx ELSE -dx>>
                ELSE BE16(U16(dx)),
         ys |-> IF dy = 0 THEN <<>>
                ELSE IF yShort THEN <<IF 0 < dy THEN dy ELSE -dy>>
                ELSE BE16(U16(dy))]

\* what a pending run of repeats writes behind the last flag
flushRepeats(w, repeats) ==
    IF 1 < repeats THEN Append(Put(w, Len(w) - 1, <<BitOr(w[Len(w)], 8)>>), repeats)
    ELSE IF repeats = 1 THEN Append(w, w[Len(w)])
    ELSE w

\* the flag loop with its repeat handling; w is the writer, i the next point
RECURSIVE subsetFlags(_, _, _, _)
subsetFlags(flags, i, w, repeats) ==
    IF i > Len(flags) THEN flushRepeats(w, repeats)
    ELSE IF 1 < i /\ repeats < 255 /\ flags[i] = w[Len(w)]
    THEN subsetFlags(flags, i + 1, w, repeats + 1)
    ELSE subsetFlags(flags, i + 1, Append(flushRepeats(w, repeats), flags[i]), 0)

\* the optimized data of a simple glyph that has contours
subsetSimpleGlyph(c) ==
    LET numberOfContours == Len(c.EndPoints)
        numPoints == c.EndPoints[numberOfContours] + 1
        header == BE16(numberOfContours)
                  \o BE16(c.XMin) \o BE16(c.YMin)
                  \o BE16(c.XMax) \o BE16(c.YMax)
                  \o Words16(c.EndPoints)
                  \o BE16(Len(c.Instructions)) \o c.Instructions
    IN  With([pts \in {[i \in 1..numPoints |-> subsetPoint(c, i)]} |->
          subsetFlags([i \in 1..numPoints |-> pts[i].flag], 1, header, 0)
          \o Flatten([i \in 1..numPoints |-> pts[i].xs])
          \o Flatten([i \in 1..numPoints |-> pts[i].ys])])

\* the component loop of a composite glyph: glyph ids replaced through glyphMap
\* (0 for an id the map does not hold)
RECURSIVE subsetComposite(_, _, _, _)
subsetComposite(b, w, offset, glyphMap) ==
    LET flags == Uint16At(b, offset)
        subGlyphID == Uint16At(b, offset + 2)
        cl == glyfCompositeLength(flags)
    IN  With([patched \in {Put(w, offset + 2,
                 BE16(IF subGlyphID \in DOMAIN glyphMap THEN glyphMap[subGlyphID] ELSE 0))} |->
               IF ~cl.more THEN patched
               ELSE subsetComposite(b, patched, offset + cl.length, glyphMap)])

\* the bytes written for one glyph with a non-zero id, before padding: [ok, b];
\* not ok when Contour runs out of range
subsetGlyph(glyf, glyphID, glyphMap) ==
    IF IsComposite(glyf, glyphID)
    THEN With([b \in {glyfGet(glyf, glyphID)} |->
           [ok |-> TRUE, b |-> subsetComposite(b, b, 10, glyphMap)]])
    ELSE With([c \in {Contour(glyf, glyphID)} |->
           IF ~c.ok
           THEN IF c.panic THEN [ok |-> FALSE, b |-> <<>>]
                ELSE With([b \in {glyfGet(glyf, glyphID)} |->
                       [ok |-> TRUE, b |-> IF b = None THEN <<>> ELSE b]])
           ELSE IF 0 < Len(c.EndPoints)
           THEN [ok |-> TRUE, b |-> subsetSimpleGlyph(c)]
           ELSE [ok |-> TRUE, b |-> <<>>]])

\* the glyph loop of the glyf case: acc = [ok, w, glyfOffsets]
RECURSIVE subsetGlyf(_, _, _, _, _)
subsetGlyf(glyf, glyphIDs, glyphMap, i, acc) ==
    IF i > Len(glyphIDs) \/ ~acc.ok THEN acc
    ELSE IF glyphIDs[i] = 0
    THEN subsetGlyf(glyf, glyphIDs, glyphMap, i + 1,
                    [acc EXCEPT !.glyfOffsets[i + 1] = Len(acc.w)])
    ELSE With([g \in {subsetGlyph(glyf, glyphIDs[i], glyphMap)} |->
           IF ~g.ok THEN [acc EXCEPT !.ok = FALSE]
           ELSE With([w \in {acc.w \o g.b \o (IF (Len(acc.w) + Len(g.b)) % 2 = 1 THEN <<0>> ELSE <<>>)} |->
                       subsetGlyf(glyf, glyphIDs, glyphMap, i + 1,
                                  [ok |-> TRUE, w |-> w,
                                   glyfOffsets |-> [acc.glyfOffsets EXCEPT ![i + 1] = Len(w)]])])])

\* the rune loop of the cmap case: [rs, runeMap]
RECURSIVE subsetRunes(_, _, _, _)
subsetRunes(cmap, glyphIDs, i, acc) ==
    IF i > Len(glyphIDs) THEN acc
    ELSE With([r \in {cmapToUnicode(cmap, glyphIDs[i])} |->
           subsetRunes(cmap, glyphIDs, i + 1,
             IF r # 0
             THEN [rs |-> Append(acc.rs, r),
                   runeMap |-> [x \in DOMAIN acc.runeMap \cup {r} |->
                                  IF x = r THEN i - 1 ELSE acc.runeMap[x]]]
             ELSE acc)])

\* the pairs kept of one kern subtable, in the order of the two loops
subsetKernPairs(subtable, glyphIDs) ==
    Flatten([l \in 1..Len(glyphIDs) |->
      IF glyphIDs[l] = 0 THEN <<>>
      ELSE Flatten([r \in 1..Len(glyphIDs) |->
             IF glyphIDs[r] = 0 THEN <<>>
             ELSE With([value \in {kernGet(subtable, glyphIDs[l], glyphIDs[r])} |->
                    IF value # 0 THEN <<[Key |-> <<l - 1, r - 1>>, Value |-> value]>>
                    ELSE <<>>])])])

\* the kern table of the subset: subtables left without pairs are dropped
RECURSIVE subsetKern(_, _)
subsetKern(Subtables, glyphIDs) ==
    IF Subtables = <<>> THEN <<>>
    ELSE With([pairs \in {subsetKernPairs(Head(Subtables), glyphIDs)} |->
           (IF 0 < Len(pairs)
            THEN <<[Coverage |-> Head(Subtables).Coverage, Pairs |-> pairs]>>
            ELSE <<>>)
           \o subsetKern(Tail(Subtables), glyphIDs)])

\* the new SFNT as constructed before the table loop
NewSFNT(sfntOld) ==
    [IsTrueType |-> sfntOld.IsTrueType, IsCFF |-> sfntOld.IsCFF, Tables |-> <<>>,
     Head |-> Nil, Maxp |-> Nil, Hhea |-> Nil, Loca |-> [Format |-> 0, data |-> <<>>],
     Glyf |-> Nil, Hmtx |-> Nil, Cmap |-> Nil, Kern |-> Nil, OS2 |-> Nil, Post |-> Nil]

SetTable(st, tag, b) == [st EXCEPT !.sfnt.Tables = (tag :> b) @@ @]

\* one round of the table loop.  st = [sfnt, sfntOld, indexToLocFormat,
\* glyfOffsets, ulUnicodeRange, status]; sfnt.OS2 and sfntOld.OS2 are one object
subsetTable(st, tag, glyphIDs, glyphMap, advances, numberOfHMetrics) ==
    IF st.status # "ok" \/ tag \notin DOMAIN st.sfntOld.Tables THEN st
    ELSE LET table == st.sfntOld.Tables[tag]
             n == Len(glyphIDs)
    IN  CASE tag = "cmap" ->
               With([m \in {subsetRunes(st.sfntOld.Cmap, glyphIDs, 1, [rs |-> <<>>, runeMap |-> <<>>])} |->
                 With([b \in {cmapWrite(m.rs, m.runeMap)} |->
                   With([cmap \in {IF st.sfnt.Maxp = Nil THEN CmapErr
                        ELSE parseCmap(b, st.sfnt.Maxp.NumGlyphs)} |->
                          IF cmap = CmapErr THEN [st EXCEPT !.status = "error"]
                          ELSE [SetTable(st, tag, b) EXCEPT
                                  !.ulUnicodeRange = os2UlUnicodeRange(m.rs),
                                  !.sfnt.Cmap = cmap]])])])
          [] tag = "glyf" ->
               With([g \in {subsetGlyf(GlyfOf(st.sfntOld), glyphIDs, glyphMap, 1,
                               [ok |-> TRUE, w |-> <<>>, glyfOffsets |-> st.glyfOffsets])} |->
                      IF ~g.ok THEN [st EXCEPT !.status = "panic"]
                      ELSE [SetTable(st, tag, g.w) EXCEPT
                              !.glyfOffsets = g.glyfOffsets,
                              !.indexToLocFormat = IF Len(g.w) <= MaxUint16 THEN 0 ELSE 1,
                              !.sfnt.Glyf = [data |-> g.w]]])
          [] tag = "head" ->
               [SetTable(st, tag, Slice(table, 0, 50) \o BE16(st.indexToLocFormat)
                                  \o From(table, 52)) EXCEPT
                  !.sfnt.Head = [st.sfntOld.Head EXCEPT
                                   !.IndexToLocFormat = st.indexToLocFormat]]
          [] tag = "hhea" ->
               [SetTable(st, tag, Slice(table, 0, 34) \o BE16(numberOfHMetrics)
                                  \o From(table, 36)) EXCEPT
                  !.sfnt.Hhea = [st.sfntOld.Hhea EXCEPT
                                   !.NumberOfHMetrics = numberOfHMetrics]]
          [] tag = "hmtx" ->
               With([lsbs \in {[k \in 1..n |-> LeftSideBearing(st.sfntOld.Hmtx, glyphIDs[k])]} |->
                      [SetTable(st, tag,
                                Flatten([k \in 1..n |->
                                   (IF k - 1 < numberOfHMetrics THEN BE16(advances[k])
                                    ELSE <<>>) \o BE16(U16(lsbs[k]))])) EXCEPT
                         !.sfnt.Hmtx =
                            [HMetrics |-> [k \in 1..numberOfHMetrics |->
                                             [AdvanceWidth |-> advances[k],
                                              LeftSideBearing |-> lsbs[k]]],
                             LeftSideBearings |-> SubSeq(lsbs, numberOfHMetrics + 1, n)]]])
          [] tag = "kern" ->
               With([Subtables \in {subsetKern(st.sfntOld.Kern.Subtables, glyphIDs)} |->
                 IF Len(Subtables) = 0 THEN st
                 ELSE [SetTable(st, tag, kernWrite([Subtables |-> Subtables])) EXCEPT
                         !.sfnt.Kern = [ok |-> TRUE, Subtables |-> Subtables]]])
          [] tag = "loca" ->
               With([b \in {Flatten([k \in 1..(n + 1) |->
                       IF st.indexToLocFormat = 0
                       THEN BE16(U16(st.glyfOffsets[k] \div 2))
                       ELSE BE32(st.glyfOffsets[k])])} |->
                      [SetTable(st, tag, b) EXCEPT
                         !.sfnt.Loca = [Format |-> st.indexToLocFormat, data |-> b]]])
          [] tag = "maxp" ->
               SetTable(st, tag, Slice(table, 0, 4) \o BE16(U16(n)) \o From(table, 6))
          [] tag = "name" ->
               SetTable(st, tag, BE16(0) \o BE16(0) \o BE16(6))
          [] tag = "OS/2" ->
               With([OS2 \in {[st.sfntOld.OS2 EXCEPT !.UlUnicodeRange = st.ulUnicodeRange]} |->
                      [SetTable(st, tag,
                                Slice(table, 0, 42)
                                \o Flatten([i \in 1..4 |-> BE32W(OS2.UlUnicodeRange[i])])
                                \o From(table, 58)) EXCEPT
                         !.sfnt.OS2 = OS2, !.sfntOld.OS2 = OS2]])
          [] tag = "post" ->
               [SetTable(st, tag, BE32W(<<3, 0>>) \o Slice(table, 4, 32)) EXCEPT
                  !.sfnt.Post = [NumGlyphs |-> 0]]
          [] OTHER -> SetTable(st, tag, table)

\* the table loop over the sorted tags
RECURSIVE subsetTables(_, _, _, _, _, _)
subsetTables(st, tags, glyphIDs, glyphMap, advances, numberOfHMetrics) ==
    IF tags = <<>> THEN st
    ELSE With([next \in {subsetTable(st, Head(tags), glyphIDs, glyphMap, advances, numberOfHMetrics)} |->
                subsetTables(next, Tail(tags), glyphIDs, glyphMap, advances,
                             numberOfHMetrics)])

\* Subset of a TrueType or CFF font without a CFF2 table: [sfnt, sfntOld, status],
\* the returned font, the receiver as the call leaves it, and "ok" for a nil
\* error, "error" for a returned error (no font), "panic" for a run-time panic
Subset(f, glyphIDs0, Tables) ==
    With([ids \in {subsetGlyphIDs(f, glyphIDs0)} |->
      IF ~ids.ok THEN [sfnt |-> Nil, sfntOld |-> f, status |-> "error"]
      ELSE IF MaxUint16 < Len(ids.glyphIDs)
      THEN [sfnt |-> Nil, sfntOld |-> f, status |-> "error"]
      ELSE
      With([tags \in {subsetTags(f, Tables)} |->
        With([advances \in {[k \in 1..Len(ids.glyphIDs) |-> Advance(f.Hmtx, ids.glyphIDs[k])]} |->
          With([st \in {subsetTables(
                 [sfnt |-> IF "maxp" \in Range(tags)
                           THEN [NewSFNT(f) EXCEPT
                                   !.Maxp = [f.Maxp EXCEPT
                                               !.NumGlyphs = U16(Len(ids.glyphIDs))]]
                           ELSE NewSFNT(f),
                  sfntOld |-> f,
                  indexToLocFormat |-> 1,
                  glyfOffsets |-> [k \in 1..(Len(ids.glyphIDs) + 1) |-> 0],
                  ulUnicodeRange |-> <<<<0, 0>>, <<0, 0>>, <<0, 0>>, <<0, 0>>>>,
                  status |-> "ok"],
                 tags, ids.glyphIDs, ids.glyphMap, advances,
                 subsetHMetrics(advances, U16(Len(ids.glyphIDs))))} |->
                 [sfnt |-> IF st.status = "ok" THEN st.sfnt ELSE Nil,
                  sfntOld |-> st.sfntOld,
                  status |-> st.status]])])])])

(***************************************************************************)
(* WOFF2: the readers over a byte buffer, the variable-length integers,   *)
(* the glyf and hmtx transforms and their reconstruction                   *)
(***************************************************************************)
U8(x) == x % 256

\* BinaryReader: a read past the end sets eof and gives zero (no bytes), and
\* every later read does the same
NewBinaryReader(b) == [b |-> b, pos |-> 0, eof |-> FALSE]
Short(r, n) == r.eof \/ Len(r.b) - r.pos < n
\* the reader after a read of n bytes
Skipped(r, n) == IF Short(r, n) THEN [r EXCEPT !.eof = TRUE] ELSE [r EXCEPT !.pos = @ + n]
ReadBytes(r, n) == IF Short(r, n) THEN <<>> ELSE Slice(r.b, r.pos, r.pos + n)
ReadByte(r) == IF Short(r, 1) THEN 0 ELSE r.b[r.pos + 1]
ReadUint16(r) == IF Short(r, 2) THEN 0 ELSE Uint16At(r.b, r.pos)
ReadInt16(r) == I16(ReadUint16(r))

\* BitmapWriter over make([]byte, size): the bits in writing order, most
\* significant bit first
BitmapBytes(bits, size) ==
    [k \in 1..size |->
        SeqSum([j \in 1..8 |->
                  IF 8 * (k - 1) + j <= Len(bits) /\ bits[8 * (k - 1) + j]
                  THEN Pow2(8 - j) ELSE 0])]

\* BitmapReader.Read of bit i (from 0); FALSE past the end
BitmapRead(b, i) == IF i \div 8 >= Len(b) THEN FALSE ELSE Bit(b[(i \div 8) + 1], 7 - (i % 8))

\* readUintBase128: [ok, v, r]
RECURSIVE readUintBase128Loop(_, _, _)
readUintBase128Loop(r, accum, i) ==
    IF i = 5 \/ Short(r, 1) THEN [ok |-> FALSE, v |-> 0, r |-> Skipped(r, 1)]
    ELSE IF i = 0 /\ ReadByte(r) = 128 THEN [ok |-> FALSE, v |-> 0, r |-> Skipped(r, 1)]
    ELSE IF accum >= 33554432 THEN [ok |-> FALSE, v |-> 0, r |-> Skipped(r, 1)]
    ELSE IF ReadByte(r) < 128
    THEN [ok |-> TRUE, v |-> accum * 128 + ReadByte(r), r |-> Skipped(r, 1)]
    ELSE readUintBase128Loop(Skipped(r, 1), accum * 128 + (ReadByte(r) % 128), i + 1)

readUintBase128(r) == readUintBase128Loop(r, 0, 0)

RECURSIVE writeUintBase128Loop(_, _, _)
writeUintBase128Loop(accum, i, written) ==
    IF i < 0 THEN <<>>
    ELSE IF written \/ (accum \div Pow2(7 * i)) % 128 # 0
    THEN << ((accum \div Pow2(7 * i)) % 128) + (IF i # 0 THEN 128 ELSE 0) >>
         \o writeUintBase128Loop(accum, i - 1, TRUE)
    ELSE writeUintBase128Loop(accum, i - 1, FALSE)

writeUintBase128(accum) ==
    (IF accum = 0 THEN <<0>> ELSE <<>>) \o writeUintBase128Loop(accum, 4, FALSE)

\* read255Uint16: [v, r]
read255Uint16(r) ==
    With([code \in {ReadByte(r)} |->
      With([r1 \in {Skipped(r, 1)} |->
        IF code = 253 THEN [v |-> ReadUint16(r1), r |-> Skipped(r1, 2)]
        ELSE IF code = 255 THEN [v |-> ReadByte(r1) + 253, r |-> Skipped(r1, 1)]
        ELSE IF code = 254 THEN [v |-> ReadByte(r1) + 506, r |-> Skipped(r1, 1)]
        ELSE [v |-> code, r |-> r1]])])

write255Uint16(val) ==
    IF val < 253 THEN <<val>>
    ELSE IF val < 509 THEN <<255, U8(val - 253)>>
    ELSE IF val < 762 THEN <<254, U8(val - 506)>>
    ELSE <<253>> \o BE16(val)

\* the flag and the glyph stream bytes of point i (from 1) of a contour
transformPoint(c, i) ==
    With([dx0 \in {IF i > 1 THEN I16(c.XCoordinates[i] - c.XCoordinates[i - 1]) ELSE c.XCoordinates[i]} |->
    With([dy0 \in {IF i > 1 THEN I16(c.YCoordinates[i] - c.YCoordinates[i - 1]) ELSE c.YCoordinates[i]} |->
    With([dx \in {IF dx0 < 0 THEN I16(-dx0) ELSE dx0} |->
    With([dy \in {IF dy0 < 0 THEN I16(-dy0) ELSE dy0} |->
    With([dxSign \in {IF dx0 < 0 THEN 0 ELSE 1} |->
    With([dySign \in {IF dy0 < 0 THEN 0 ELSE 1} |->
    With([off \in {IF c.OnCurve[i] THEN 0 ELSE 128} |->
    With([dx1 \in {I16(dx - 1)} |->
    With([dy1 \in {I16(dy - 1)} |->
        IF dx = 0 /\ dy < 1280
        THEN [flag |-> BitOr(U8(U8(2 * (dy \div 256)) + dySign), off),
              bytes |-> << U8(dy - 256 * (dy \div 256)) >>]
        ELSE IF dx < 1280 /\ dy = 0
        THEN [flag |-> BitOr(U8(10 + U8(2 * (dx \div 256)) + dxSign), off),
              bytes |-> << U8(dx - 256 * (dx \div 256)) >>]
        ELSE IF dx < 65 /\ dy < 65
        THEN [flag |-> BitOr(U8(20 + U8(16 * (dx1 \div 16)) + U8(4 * (dy1 \div 16))
                                + 2 * dySign + dxSign), off),
              bytes |-> << BitOr(U8(16 * U8(dx1 - 16 * (dx1 \div 16))),
                                 U8(dy1 - 16 * (dy1 \div 16))) >>]
        ELSE IF dx < 769 /\ dy < 769
        THEN [flag |-> BitOr(U8(84 + U8(4 * (dx1 \div 256)) * 3 + U8(4 * (dy1 \div 256))
                                + 2 * dySign + dxSign), off),
              bytes |-> << U8(dx1 - 256 * (dx1 \div 256)),
                           U8(dy1 - 256 * (dy1 \div 256)) >>]
        ELSE IF dx < 4096 /\ dy < 4096
        THEN [flag |-> BitOr(U8(120 + 2 * dySign + dxSign), off),
              bytes |-> << U8((U16(dx) % 4096) \div 16),
                           BitOr(U8(16 * (U16(dx) % 16)), U8((U16(dy) % 4096) \div 256)),
                           U16(dy) % 256 >>]
        ELSE [flag |-> BitOr(U8(124 + 2 * dySign + dxSign), off),
              bytes |-> BE16(dx) \o BE16(dy)]])])])])])])])])])

\* the nPoints stream of a contour: the number of points of each of its contours
transformEndPoints(EndPoints) ==
    Flatten([i \in 1..Len(EndPoints) |->
               write255Uint16(IF i > 1 THEN U16(EndPoints[i] - EndPoints[i - 1])
                              ELSE U16(EndPoints[i] + 1))])

\* the bounding box sent for a simple glyph: [bboxEqual, box]
transformBbox(c) ==
    LET Least(s) == CHOOSE v \in Range(s) : \A u \in Range(s) : v <= u
        Most(s) == CHOOSE v \in Range(s) : \A u \in Range(s) : u <= v
        xMin == Least(c.XCoordinates)
        xMax == Most(c.XCoordinates)
        yMin == Least(c.YCoordinates)
        yMax == Most(c.YCoordinates)
    IN  IF xMin = c.XMin /\ xMax = c.XMax
        THEN IF yMin = c.YMin /\ yMax = c.YMax
             THEN [bboxEqual |-> TRUE, box |-> <<xMin, yMin, xMax, yMax>>]
             ELSE [bboxEqual |-> FALSE, box |-> <<c.XMin, c.YMin, c.XMax, c.YMax>>]
        ELSE [bboxEqual |-> FALSE,
              box |-> <<xMin, c.YCoordinates[1], xMax, c.YCoordinates[1]>>]

\* the components of a composite glyph read from r: [composite, hasInstructions, r]
RECURSIVE transformComponents(_, _, _)
transformComponents(r, composite, hasInstructions) ==
    With([flags \in {ReadUint16(r)} |->
      With([r1 \in {Skipped(r, 2)} |->
        With([l \in {glyfCompositeLength(flags)} |->
          IF l.more
          THEN transformComponents(Skipped(r1, l.length - 2),
                   composite \o BE16(flags) \o ReadBytes(r1, l.length - 2),
                   hasInstructions \/ Bit(flags, 8))
          ELSE [composite |-> composite \o BE16(flags) \o ReadBytes(r1, l.length - 2),
                hasInstructions |-> hasInstructions \/ Bit(flags, 8),
                r |-> Skipped(r1, l.length - 2)]])])])

\* the streams as they are before any glyph is written
EmptyStreams ==
    [ok |-> TRUE, nContour |-> <<>>, nPoints |-> <<>>, flag |-> <<>>, glyph |-> <<>>,
     composite |-> <<>>, bboxBitmap |-> <<>>, bbox |-> <<>>, instruction |-> <<>>,
     overlapSimple |-> <<>>, optionFlags |-> 0, xMins |-> <<>>]

\* one round of the glyph loop of transformGlyf
transformGlyph(glyf, glyphID, s) ==
    IF ~IsComposite(glyf, glyphID)
    THEN With([c \in {Contour(glyf, glyphID)} |->
           IF ~c.ok THEN [s EXCEPT !.ok = FALSE]
           ELSE IF Len(c.EndPoints) = 0
           THEN [s EXCEPT !.nContour = @ \o BE16(0), !.bboxBitmap = Append(@, FALSE),
                          !.xMins = Append(@, 0)]
           ELSE
           With([pts \in {[i \in 1..Len(c.XCoordinates) |-> transformPoint(c, i)]} |->
           With([bb \in {transformBbox(c)} |->
           With([hasOverlap \in {\E i \in 1..Len(c.OverlapSimple) : c.OverlapSimple[i]} |->
             [s EXCEPT
                !.nContour = @ \o BE16(Len(c.EndPoints)),
                !.nPoints = @ \o transformEndPoints(c.EndPoints),
                !.flag = @ \o [i \in 1..Len(pts) |-> pts[i].flag],
                !.glyph = @ \o Flatten([i \in 1..Len(pts) |-> pts[i].bytes])
                            \o write255Uint16(U16(Len(c.Instructions))),
                !.instruction = @ \o c.Instructions,
                !.bboxBitmap = Append(@, ~bb.bboxEqual),
                !.bbox = @ \o (IF bb.bboxEqual THEN <<>>
                               ELSE Flatten([k \in 1..4 |-> BE16(bb.box[k])])),
                !.overlapSimple = Append(@, hasOverlap),
                !.optionFlags = IF hasOverlap THEN 1 ELSE @,
                !.xMins = Append(@, c.XMin)]])])])])
    ELSE With([r \in {NewBinaryReader(glyfGet(glyf, glyphID))} |->
         With([t \in {transformComponents(Skipped(r, 10), <<>>, FALSE)} |->
           [s EXCEPT
              !.composite = @ \o t.composite,
              !.glyph = @ \o (IF t.hasInstructions
                              THEN write255Uint16(ReadUint16(t.r))
                                   \o ReadBytes(Skipped(t.r, 2), ReadUint16(t.r))
                              ELSE <<>>),
              !.bboxBitmap = Append(@, TRUE),
              !.bbox = @ \o Flatten([k \in 1..4 |->
                                 IF Len(r.b) >= 2 * k + 2 THEN Slice(r.b, 2 * k, 2 * k + 2)
                                 ELSE <<0, 0>>]),
              !.overlapSimple = Append(@, FALSE),
              !.xMins = Append(@, 0)]])])

RECURSIVE transformGlyphs(_, _, _, _)
transformGlyphs(numGlyphs, glyf, glyphID, s) ==
    IF glyphID >= numGlyphs \/ ~s.ok THEN s
    ELSE transformGlyphs(numGlyphs, glyf, glyphID + 1, transformGlyph(glyf, glyphID, s))

\* transformGlyf: [ok, b, xMins]; ok is FALSE where the code gives nil
transformGlyf(numGlyphs, glyf, loca) ==
    With([bitmapSize \in {((numGlyphs + 31) \div 32) * 4} |->
    With([s \in {transformGlyphs(numGlyphs, glyf, 0, EmptyStreams)} |->
      IF ~s.ok THEN [ok |-> FALSE, b |-> <<>>, xMins |-> <<>>]
      ELSE [ok |-> TRUE, xMins |-> s.xMins,
            b |-> BE16(0) \o BE16(s.optionFlags) \o BE16(numGlyphs) \o BE16(U16(loca.Format))
                  \o BE32(Len(s.nContour)) \o BE32(Len(s.nPoints)) \o BE32(Len(s.flag))
                  \o BE32(Len(s.glyph)) \o BE32(Len(s.composite))
                  \o BE32(bitmapSize + Len(s.bbox)) \o BE32(Len(s.instruction))
                  \o s.nContour \o s.nPoints \o s.flag \o s.glyph \o s.composite
                  \o BitmapBytes(s.bboxBitmap, bitmapSize) \o s.bbox \o s.instruction
                  \o (IF s.optionFlags = 1 THEN BitmapBytes(s.overlapSimple, bitmapSize)
                      ELSE <<>>)]])])

\* transformHmtx: None where the code gives nil
transformHmtx(hmtx, xMins) ==
    LET nH == Len(hmtx.HMetrics)
        omitLSBs == \A i \in 1..nH : hmtx.HMetrics[i].LeftSideBearing = xMins[i]
        omitLeftSideBearings ==
            \A i \in 1..Len(hmtx.LeftSideBearings) : hmtx.LeftSideBearings[i] = xMins[nH + i]
    IN  IF Len(xMins) # nH + Len(hmtx.LeftSideBearings) THEN None
        ELSE IF ~omitLSBs /\ ~omitLeftSideBearings THEN None
        ELSE << (IF omitLSBs THEN 1 ELSE 0) + (IF omitLeftSideBearings THEN 2 ELSE 0) >>
             \o Flatten([i \in 1..nH |-> BE16(hmtx.HMetrics[i].AdvanceWidth)])
             \o (IF omitLSBs THEN <<>>
                 ELSE Flatten([i \in 1..nH |-> BE16(hmtx.HMetrics[i].LeftSideBearing)]))
             \o (IF omitLeftSideBearings THEN <<>>
                 ELSE Flatten([i \in 1..Len(hmtx.LeftSideBearings) |->
                                 BE16(hmtx.LeftSideBearings[i])]))

\* signInt16 applied to the flag without its off-curve bit
signInt16(flag, pos) == IF Bit(flag, pos) THEN 1 ELSE -1

\* the delta of one point of reconstructGlyfLoca: [dx, dy, r] from the flag
\* without its off-curve bit and the glyph stream r
reconstructPoint(flag, r) ==
    With([coord0 \in {ReadByte(r)} |->
    With([coord1 \in {ReadByte(Skipped(r, 1))} |->
    With([coord2 \in {ReadByte(Skipped(Skipped(r, 1), 1))} |->
    With([coord3 \in {ReadByte(Skipped(Skipped(Skipped(r, 1), 1), 1))} |->
        IF flag < 10
        THEN [dx |-> 0,
              dy |-> I16(signInt16(flag, 0) * I16(2 * ((flag \div 2) % 8) * 128 + coord0)),
              r |-> Skipped(r, 1)]
        ELSE IF flag < 20
        THEN [dx |-> I16(signInt16(flag, 0) * I16(2 * (((flag - 10) \div 2) % 8) * 128 + coord0)),
              dy |-> 0,
              r |-> Skipped(r, 1)]
        ELSE IF flag < 84
        THEN [dx |-> I16(signInt16(flag, 0)
                         * I16(1 + 16 * (((flag - 20) \div 16) % 4) + (coord0 \div 16))),
              dy |-> I16(signInt16(flag, 1)
                         * I16(1 + 16 * (((flag - 20) \div 4) % 4) + (coord0 % 16))),
              r |-> Skipped(r, 1)]
        ELSE IF flag < 120
        THEN [dx |-> I16(signInt16(flag, 0) * I16(1 + 256 * ((flag - 84) \div 12) + coord0)),
              dy |-> I16(signInt16(flag, 1)
                         * I16(1 + 256 * (((flag - 84) % 12) \div 4) + coord1)),
              r |-> Skipped(Skipped(r, 1), 1)]
        ELSE IF flag < 124
        THEN [dx |-> I16(signInt16(flag, 0) * I16(16 * coord0 + (coord1 \div 16))),
              dy |-> I16(signInt16(flag, 1) * I16(256 * (coord1 % 16) + coord2)),
              r |-> Skipped(Skipped(Skipped(r, 1), 1), 1)]
        ELSE [dx |-> I16(signInt16(flag, 0) * I16(256 * coord0 + coord1)),
              dy |-> I16(signInt16(flag, 1) * I16(256 * coord2 + coord3)),
              r |-> Skipped(Skipped(Skipped(Skipped(r, 1), 1), 1), 1)]])])])])

\* the contour loop of a simple glyph: [ok, nPoints, endPts, r]
RECURSIVE reconstructEndPoints(_, _, _, _)
reconstructEndPoints(r, nContours, nPoints, endPts) ==
    IF Len(endPts) >= nContours
    THEN [ok |-> ~r.eof, nPoints |-> nPoints, endPts |-> endPts, r |-> r]
    ELSE With([p \in {read255Uint16(r)} |->
           IF MaxUint16 - nPoints < p.v
           THEN [ok |-> FALSE, nPoints |-> nPoints, endPts |-> endPts, r |-> p.r]
           ELSE reconstructEndPoints(p.r, nContours, nPoints + p.v,
                                     Append(endPts, U16(nPoints + p.v - 1)))])

\* the point loop of a simple glyph.  p = [ok, flag, glyph, overlap, ovl, x, y,
\* box, flags, xs, ys]: the flag and glyph streams, the overlapSimple bitmap
\* (None when absent) and the number of bits read from it, the running point,
\* the bounding box and the flags and deltas collected
RECURSIVE reconstructPoints(_, _, _, _)
reconstructPoints(p, iPoint, nPoints, explicitBbox) ==
    IF iPoint >= nPoints
    THEN [p EXCEPT !.ok = ~p.flag.eof /\ ~p.glyph.eof]
    ELSE
    With([flag \in {ReadByte(p.flag)} |->
    With([d \in {reconstructPoint(flag % 128, p.glyph)} |->
    With([outlineFlag \in {(IF flag < 128 THEN 1 ELSE 0)
         + (IF p.overlap # <<>> /\ BitmapRead(p.overlap[1], p.ovl) THEN 64 ELSE 0)} |->
    With([q \in {[p EXCEPT !.flag = Skipped(@, 1), !.glyph = d.r,
                   !.ovl = IF p.overlap # <<>> THEN @ + 1 ELSE @,
                   !.flags = Append(@, outlineFlag),
                   !.xs = Append(@, d.dx), !.ys = Append(@, d.dy)]} |->
        IF explicitBbox THEN reconstructPoints(q, iPoint + 1, nPoints, explicitBbox)
        ELSE IF \/ 0 < p.x /\ 32767 - p.x < d.dx
                \/ p.x < 0 /\ d.dx < -32768 - p.x
                \/ 0 < p.y /\ 32767 - p.y < d.dy
                \/ p.y < 0 /\ d.dy < -32768 - p.y
        THEN [q EXCEPT !.ok = FALSE]
        ELSE With([x \in {I16(p.x + d.dx)} |->
             With([y \in {I16(p.y + d.dy)} |->
               reconstructPoints(
                 [q EXCEPT !.x = x, !.y = y,
                           !.box = IF iPoint = 0 THEN <<x, y, x, y>>
                                   ELSE << IF x < @[1] THEN x ELSE @[1],
                                           IF y < @[2] THEN y ELSE @[2],
                                           IF x < @[1] THEN @[3]
                                           ELSE IF @[3] < x THEN x ELSE @[3],
                                           IF y < @[2] THEN @[4]
                                           ELSE IF @[4] < y THEN y ELSE @[4] >>],
                 iPoint + 1, nPoints, explicitBbox)])])])])])])

\* the component loop of a composite glyph: [ok, b, hasInstructions, r]
RECURSIVE reconstructComponents(_, _, _)
reconstructComponents(r, b, hasInstructions) ==
    With([compositeFlag \in {ReadUint16(r)} |->
    With([numBytes \in {4 + (IF Bit(compositeFlag, 0) THEN 2 ELSE 0)
           + (IF Bit(compositeFlag, 3) THEN 2
              ELSE IF Bit(compositeFlag, 6) THEN 4
              ELSE IF Bit(compositeFlag, 7) THEN 8 ELSE 0)} |->
    With([r2 \in {Skipped(Skipped(r, 2), numBytes)} |->
        IF r2.eof THEN [ok |-> FALSE, b |-> b, hasInstructions |-> hasInstructions, r |-> r2]
        ELSE IF Bit(compositeFlag, 5)
        THEN reconstructComponents(r2,
                 b \o BE16(compositeFlag) \o ReadBytes(Skipped(r, 2), numBytes),
                 hasInstructions \/ Bit(compositeFlag, 8))
        ELSE [ok |-> TRUE,
              b |-> b \o BE16(compositeFlag) \o ReadBytes(Skipped(r, 2), numBytes),
              hasInstructions |-> hasInstructions \/ Bit(compositeFlag, 8),
              r |-> r2]])])])

\* w padded so that its length is a multiple of four
PadGlyph(w) == w \o Zeros((4 - (Len(w) % 4)) % 4)

\* the entry written to loca before a glyph, and after the last
reconstructLoca(s, indexFormat) ==
    IF indexFormat = 0 THEN BE16(U16(Len(s.w) \div 2)) ELSE BE32(Len(s.w))

\* one round of the glyph loop of reconstructGlyfLoca.  s = [ok, w, loca,
\* nContour, nPoints, flag, glyph, composite, bboxBitmap, bbox, instruction,
\* overlap, ovl]
reconstructGlyph(s0, iGlyph, indexFormat) ==
    With([s \in {[s0 EXCEPT !.loca = @ \o reconstructLoca(s0, indexFormat),
                    !.nContour = Skipped(@, 2)]} |->
    With([explicitBbox \in {BitmapRead(s0.bboxBitmap, iGlyph)} |->
    With([nContours \in {ReadInt16(s0.nContour)} |->
    With([box \in {[k \in 1..4 |-> ReadUint16([s.bbox EXCEPT !.pos = @ + 2 * (k - 1)])]} |->
        IF nContours = 0
        THEN [s EXCEPT !.ok = ~explicitBbox]
        ELSE IF 0 < nContours
        THEN
          With([bbox \in {IF explicitBbox THEN Skipped(s.bbox, 8) ELSE s.bbox} |->
            IF bbox.eof THEN [s EXCEPT !.ok = FALSE]
            ELSE
            With([e \in {reconstructEndPoints(s.nPoints, nContours, 0, <<>>)} |->
              IF ~e.ok THEN [s EXCEPT !.ok = FALSE]
              ELSE
              With([p \in {reconstructPoints(
                     [ok |-> TRUE, flag |-> s.flag, glyph |-> s.glyph,
                      overlap |-> s.overlap, ovl |-> s.ovl, x |-> 0, y |-> 0,
                      box |-> IF explicitBbox THEN [k \in 1..4 |-> I16(box[k])]
                              ELSE <<0, 0, 0, 0>>,
                      flags |-> <<>>, xs |-> <<>>, ys |-> <<>>],
                     0, e.nPoints, explicitBbox)} |->
                IF ~p.ok THEN [s EXCEPT !.ok = FALSE]
                ELSE
                With([l \in {read255Uint16(p.glyph)} |->
                With([ins \in {Skipped(s.instruction, l.v)} |->
                  IF ins.eof THEN [s EXCEPT !.ok = FALSE]
                  ELSE [s EXCEPT
                          !.bbox = bbox, !.nPoints = e.r, !.flag = p.flag,
                          !.glyph = l.r, !.instruction = ins, !.ovl = p.ovl,
                          !.w = PadGlyph(
                                  @ \o BE16(nContours)
                                    \o Flatten([k \in 1..4 |-> BE16(p.box[k])])
                                    \o Flatten([k \in 1..Len(e.endPts) |-> BE16(e.endPts[k])])
                                    \o BE16(l.v) \o ReadBytes(s.instruction, l.v)
                                    \o p.flags
                                    \o Flatten([k \in 1..Len(p.xs) |-> BE16(p.xs[k])])
                                    \o Flatten([k \in 1..Len(p.ys) |-> BE16(p.ys[k])]))]])])])])])
        ELSE
          IF ~explicitBbox \/ Short(s.bbox, 8) THEN [s EXCEPT !.ok = FALSE]
          ELSE
          With([c \in {reconstructComponents(s.composite,
                   BE16(nContours) \o Flatten([k \in 1..4 |-> BE16(box[k])]), FALSE)} |->
            IF ~c.ok THEN [s EXCEPT !.ok = FALSE]
            ELSE IF ~c.hasInstructions
            THEN [s EXCEPT !.bbox = Skipped(@, 8), !.composite = c.r,
                           !.w = PadGlyph(@ \o c.b)]
            ELSE
            With([l \in {read255Uint16(s.glyph)} |->
            With([ins \in {Skipped(s.instruction, l.v)} |->
              IF ins.eof THEN [s EXCEPT !.ok = FALSE]
              ELSE [s EXCEPT !.bbox = Skipped(@, 8), !.composite = c.r,
                             !.glyph = l.r, !.instruction = ins,
                             !.w = PadGlyph(@ \o c.b \o BE16(l.v)
                                              \o ReadBytes(s.instruction, l.v))]])])])])])])])

RECURSIVE reconstructGlyphs(_, _, _, _)
reconstructGlyphs(s, iGlyph, numGlyphs, indexFormat) ==
    IF ~s.ok THEN s
    ELSE IF iGlyph >= numGlyphs
    THEN [s EXCEPT !.loca = @ \o reconstructLoca(s, indexFormat)]
    ELSE reconstructGlyphs(reconstructGlyph(s, iGlyph, indexFormat),
                           iGlyph + 1, numGlyphs, indexFormat)

\* the streams of a transformed glyf table cut at their sizes: [ok, at], with
\* at[k] the start of stream k and at[Len(sizes) + 1] the end of the last
RECURSIVE StreamStarts(_, _)
StreamStarts(sizes, pos) ==
    IF sizes = <<>> THEN <<pos>>
    ELSE <<pos>> \o StreamStarts(Tail(sizes), pos + Head(sizes))

\* reconstructGlyfLoca: [ok, glyf, loca]
reconstructGlyfLoca(b, origLocaLength) ==
    IF Len(b) < 36 THEN [ok |-> FALSE, glyf |-> <<>>, loca |-> <<>>]
    ELSE
    With([optionFlags \in {Uint16At(b, 2)} |->
    With([numGlyphs \in {Uint16At(b, 4)} |->
    With([indexFormat \in {Uint16At(b, 6)} |->
    With([bitmapSize \in {((numGlyphs + 31) \div 32) * 4} |->
    With([size \in {[k \in 1..7 |-> Small32At(b, 8 + 4 * (k - 1))]} |->
      IF size[1] # 2 * numGlyphs \/ size[6] < bitmapSize
      THEN [ok |-> FALSE, glyf |-> <<>>, loca |-> <<>>]
      ELSE
      With([at \in {StreamStarts(<<size[1], size[2], size[3], size[4], size[5], bitmapSize,
                          size[6] - bitmapSize, size[7],
                          IF optionFlags % 2 = 1 THEN bitmapSize ELSE 0>>, 36)} |->
        IF at[10] > Len(b) THEN [ok |-> FALSE, glyf |-> <<>>, loca |-> <<>>]
        ELSE IF (numGlyphs + 1) * (IF indexFormat # 0 THEN 4 ELSE 2) # origLocaLength
        THEN [ok |-> FALSE, glyf |-> <<>>, loca |-> <<>>]
        ELSE
        With([s \in {reconstructGlyphs(
               [ok |-> TRUE, w |-> <<>>, loca |-> <<>>,
                nContour |-> NewBinaryReader(Slice(b, at[1], at[2])),
                nPoints |-> NewBinaryReader(Slice(b, at[2], at[3])),
                flag |-> NewBinaryReader(Slice(b, at[3], at[4])),
                glyph |-> NewBinaryReader(Slice(b, at[4], at[5])),
                composite |-> NewBinaryReader(Slice(b, at[5], at[6])),
                bboxBitmap |-> Slice(b, at[6], at[7]),
                bbox |-> NewBinaryReader(Slice(b, at[7], at[8])),
                instruction |-> NewBinaryReader(Slice(b, at[8], at[9])),
                overlap |-> IF optionFlags % 2 = 1 THEN <<Slice(b, at[9], at[10])>> ELSE <<>>,
                ovl |-> 0],
               0, numGlyphs, indexFormat)} |->
         [ok |-> s.ok, glyf |-> s.w, loca |-> s.loca]])])])])])])])

\* reconstructHmtx: [ok, b]
reconstructHmtx(b, head, glyf, loca, maxp, hhea) ==
    IF Len(head) < 52 \/ Len(maxp) < 6 \/ Len(hhea) < 36 THEN [ok |-> FALSE, b |-> <<>>]
    ELSE
    With([indexFormat \in {I16(Uint16At(head, 50))} |->
    With([numGlyphs \in {Uint16At(maxp, 4)} |->
    With([numHMetrics \in {Uint16At(hhea, 34)} |->
    With([flags \in {IF Len(b) >= 1 THEN b[1] ELSE 0} |->
    With([reconstructProportional \in {flags % 2 = 1} |->
    With([reconstructMonospaced \in {(flags \div 2) % 2 = 1} |->
    With([r \in {NewBinaryReader(b)} |->
      IF numHMetrics < 1 \/ numGlyphs < numHMetrics THEN [ok |-> FALSE, b |-> <<>>]
      ELSE IF (numGlyphs + 1) * (IF indexFormat # 0 THEN 4 ELSE 2) # Len(loca)
      THEN [ok |-> FALSE, b |-> <<>>]
      ELSE IF flags \div 4 # 0 THEN [ok |-> FALSE, b |-> <<>>]
      ELSE IF ~reconstructProportional /\ ~reconstructMonospaced THEN [ok |-> FALSE, b |-> <<>>]
      ELSE IF 1 + 2 * numHMetrics
              + (IF ~reconstructProportional THEN 2 * numHMetrics
                 ELSE IF ~reconstructMonospaced THEN 2 * (numGlyphs - numHMetrics) ELSE 0)
              # Len(b)
      THEN [ok |-> FALSE, b |-> <<>>]
      ELSE
      LET advanceWidths == [i \in 1..numHMetrics |-> Uint16At(b, 1 + 2 * (i - 1))]
          \* the lsbs read from the stream, glyph g from 0
          readLsb(g) ==
              IF ~reconstructProportional
              THEN IF g < numHMetrics THEN ReadInt16(Skipped(r, 1 + 2 * numHMetrics + 2 * g))
                   ELSE 0
              ELSE IF ~reconstructMonospaced /\ g >= numHMetrics
              THEN ReadInt16(Skipped(r, 1 + 2 * numHMetrics + 2 * (g - numHMetrics)))
              ELSE 0
          iGlyphMin == IF ~reconstructProportional THEN numHMetrics ELSE 0
          iGlyphMax == IF reconstructProportional /\ ~reconstructMonospaced
                       THEN numHMetrics ELSE numGlyphs
          offsetAt(g) == IF indexFormat # 0 THEN Small32At(loca, 4 * g)
                         ELSE 2 * Uint16At(loca, 2 * g)
          \* the glyph's xMin: [ok, v]
          xMinOf(g) ==
              IF offsetAt(g + 1) = offsetAt(g) THEN [ok |-> TRUE, v |-> 0]
              ELSE IF offsetAt(g) > Len(glyf) \/ Len(glyf) - offsetAt(g) < 4
              THEN [ok |-> FALSE, v |-> 0]
              ELSE [ok |-> TRUE, v |-> I16(Uint16At(glyf, offsetAt(g) + 2))]
          lsb(g) == IF g >= iGlyphMin /\ g < iGlyphMax THEN xMinOf(g).v ELSE readLsb(g)
      IN  IF \E g \in iGlyphMin..(iGlyphMax - 1) : ~xMinOf(g).ok
          THEN [ok |-> FALSE, b |-> <<>>]
          ELSE [ok |-> TRUE,
                b |-> Flatten([i \in 1..numHMetrics |->
                                 BE16(advanceWidths[i]) \o BE16(lsb(i - 1))])
                      \o Flatten([i \in 1..(numGlyphs - numHMetrics) |->
                                    BE16(lsb(numHMetrics + i - 1))])]])])])])])])])

woff2TableTags ==
    <<"cmap", "head", "hhea", "hmtx", "maxp", "name", "OS/2", "post",
      "cvt ", "fpgm", "glyf", "loca", "prep", "CFF ", "VORG", "EBDT",
      "EBLC", "gasp", "hdmx", "kern", "LTSH", "PCLT", "VDMX", "vhea",
      "vmtx", "BASE", "GDEF", "GPOS", "GSUB", "EBSC", "JSTF", "MATH",
      "CBDT", "CBLC", "COLR", "CPAL", "SVG ", "sbix", "acnt", "avar",
      "bdat", "bloc", "bsln", "cvar", "fdsc", "feat", "fmtx", "fvar",
      "gvar", "hsty", "just", "lcar", "mort", "morx", "opbd", "prop",
      "trak", "Zapf", "Silf", "Glat", "Gloc", "Feat", "Sill">>

\* the index of tag in woff2TableTags, -1 when it is not there
woff2TagIndex(tag) ==
    IF \E i \in 1..Len(woff2TableTags) : woff2TableTags[i] = tag
    THEN (CHOOSE i \in 1..Len(woff2TableTags) : woff2TableTags[i] = tag) - 1
    ELSE -1

\* sfnt.Version of a parsed font, as bytes
VersionBytes(f) == IF f.IsTrueType THEN <<0, 1, 0, 0>> ELSE <<79, 84, 84, 79>>

\* the Brotli stream of the table data, of which the program relies on no more
\* than that decoding gives back what was encoded
BrotliEncode(data) == [brotli |-> data]
BrotliDecode(compData) == compData.brotli

\* one table directory entry of WriteWOFF2; glyf and hmtx are None where nil
woff2DirectoryEntry(f, tag, glyf, hmtx) ==
    With([transformVersion \in {IF glyf = None /\ tag \in {"glyf", "loca"} THEN 3
         ELSE IF hmtx # None /\ tag = "hmtx" THEN 1 ELSE 0} |->
      << BitOr(U8(64 * transformVersion), (woff2TagIndex(tag) + 256) % 64) >>
      \o (IF woff2TagIndex(tag) = -1 THEN TagBytes(tag) ELSE <<>>)
      \o writeUintBase128(Len(f.Tables[tag]))
      \o (IF glyf # None /\ tag = "glyf" THEN writeUintBase128(Len(glyf))
          ELSE IF glyf # None /\ tag = "loca" THEN writeUintBase128(0)
          ELSE IF hmtx # None /\ tag = "hmtx" THEN writeUintBase128(Len(hmtx))
          ELSE <<>>)])

\* the bytes of one table handed to the Brotli writer
woff2TableData(f, tag, glyf, hmtx) ==
    IF tag = "head"
    THEN Put(f.Tables[tag], 16, BE16(BitOr(Uint16At(f.Tables[tag], 16), 2048)))
    ELSE IF glyf # None /\ tag = "glyf" THEN glyf
    ELSE IF glyf # None /\ tag = "loca" THEN <<>>
    ELSE IF hmtx # None /\ tag = "hmtx" THEN hmtx
    ELSE f.Tables[tag]

\* WriteWOFF2: the file as its header fields, its table directory and its
\* compressed data.  totalSfntSize is sfnt.Length, the size of the file the
\* font was parsed from
WriteWOFF2(f, Length) ==
    With([tags \in {SortTags(DOMAIN f.Tables \ {"DSIG"})} |->
    With([t \in {IF Has(f, "glyf") /\ Has(f, "loca")
         THEN transformGlyf(NumGlyphs(f), GlyfOf(f), f.Loca)
         ELSE [ok |-> FALSE, b |-> <<>>, xMins |-> <<>>]} |->
    With([glyf \in {IF t.ok THEN t.b ELSE None} |->
    With([hmtx \in {IF t.ok /\ Has(f, "hmtx") THEN transformHmtx(f.Hmtx, t.xMins) ELSE None} |->
      [signature |-> "wOF2",
       flavor |-> VersionBytes(f),
       numTables |-> U16(Cardinality(DOMAIN f.Tables)),
       reserved |-> 0,
       totalSfntSize |-> Length,
       directory |-> Flatten([i \in 1..Len(tags) |->
                                woff2DirectoryEntry(f, tags[i], glyf, hmtx)]),
       compData |-> BrotliEncode(Flatten([i \in 1..Len(tags) |->
                                woff2TableData(f, tags[i], glyf, hmtx)]))]])])])])

\* the tag spelled by four bytes
TagOf(b) ==
    IF \E tag \in Range(TagOrder) : TagBytes(tag) = b
    THEN CHOOSE tag \in Range(TagOrder) : TagBytes(tag) = b
    ELSE ""

\* the table directory loop of ParseWOFF2: [ok, tables, uncompressedSize, r]
RECURSIVE woff2Directory(_, _, _, _)
woff2Directory(r, numTables, tables, uncompressedSize) ==
    IF Len(tables) >= numTables
    THEN [ok |-> TRUE, tables |-> tables, uncompressedSize |-> uncompressedSize, r |-> r]
    ELSE
    With([flags \in {ReadByte(r)} |->
    With([transformVersion \in {flags \div 64} |->
    With([r1 \in {IF flags % 64 = 63 THEN Skipped(Skipped(r, 1), 4) ELSE Skipped(r, 1)} |->
    With([tag \in {IF flags % 64 = 63
         THEN (IF r1.eof THEN "" ELSE TagOf(ReadBytes(Skipped(r, 1), 4)))
         ELSE woff2TableTags[(flags % 64) + 1]} |->
    With([origLength \in {readUintBase128(r1)} |->
      IF ~origLength.ok
      THEN [ok |-> FALSE, tables |-> tables, uncompressedSize |-> 0, r |-> r1]
      ELSE
      With([transformed \in {(tag \in {"glyf", "loca"} /\ transformVersion = 0)
           \/ (tag = "hmtx" /\ transformVersion = 1)} |->
      With([transformLength \in {IF transformed THEN readUintBase128(origLength.r)
           ELSE [ok |-> TRUE, v |-> 0, r |-> origLength.r]} |->
        IF transformed /\ (~transformLength.ok \/ (tag # "loca" /\ transformLength.v = 0))
        THEN [ok |-> FALSE, tables |-> tables, uncompressedSize |-> 0, r |-> r1]
        ELSE IF ~transformed /\ ~(transformVersion = 0
                                  \/ (transformVersion = 3 /\ tag \in {"glyf", "loca"}))
        THEN [ok |-> FALSE, tables |-> tables, uncompressedSize |-> 0, r |-> r1]
        ELSE IF tag = "loca" /\ ~(\E i \in 1..Len(tables) : tables[i].tag = "glyf")
        THEN [ok |-> FALSE, tables |-> tables, uncompressedSize |-> 0, r |-> r1]
        ELSE IF \E i \in 1..Len(tables) : tables[i].tag = tag
        THEN [ok |-> FALSE, tables |-> tables, uncompressedSize |-> 0, r |-> r1]
        ELSE woff2Directory(transformLength.r, numTables,
                 Append(tables, [tag |-> tag, origLength |-> origLength.v,
                                 transformVersion |-> transformVersion,
                                 transformLength |-> transformLength.v,
                                 data |-> <<>>]),
                 uncompressedSize + (IF transformed THEN transformLength.v
                                     ELSE origLength.v))])])])])])])])

\* the loop that hands every table its part of the decompressed data:
\* [ok, tables]
RECURSIVE woff2TableBytes(_, _, _, _)
woff2TableBytes(tables, data, i, offset) ==
    IF i > Len(tables) THEN [ok |-> TRUE, tables |-> tables]
    ELSE IF tables[i].tag = "loca" /\ tables[i].transformVersion = 0
    THEN woff2TableBytes(tables, data, i + 1, offset)
    ELSE With([n \in {IF tables[i].transformLength # 0 THEN tables[i].transformLength
              ELSE tables[i].origLength} |->
           IF Len(data) - offset < n THEN [ok |-> FALSE, tables |-> tables]
           ELSE woff2TableBytes([tables EXCEPT ![i].data = Slice(data, offset, offset + n)],
                                data, i + 1, offset + n)])

\* tagTableIndex[tag], from 1; 0 when the tag is absent
woff2Index(tables, tag) ==
    IF \E i \in 1..Len(tables) : tables[i].tag = tag
    THEN CHOOSE i \in 1..Len(tables) : tables[i].tag = tag
    ELSE 0

\* the glyf and loca tables put back: [ok, tables]
woff2Glyf(tables) ==
    With([iGlyf \in {woff2Index(tables, "glyf")} |->
    With([iLoca \in {woff2Index(tables, "loca")} |->
      IF iGlyf = 0 THEN [ok |-> TRUE, tables |-> tables]
      ELSE IF tables[iGlyf].transformVersion = 0
      THEN With([g \in {reconstructGlyfLoca(tables[iGlyf].data, tables[iLoca].origLength)} |->
             IF ~g.ok \/ tables[iLoca].origLength # Len(g.loca)
             THEN [ok |-> FALSE, tables |-> tables]
             ELSE [ok |-> TRUE,
                   tables |-> [tables EXCEPT ![iGlyf].data = g.glyf, ![iLoca].data = g.loca]]])
      ELSE With([d \in {tables[iGlyf].data} |->
             IF Len(d) < 8 THEN [ok |-> FALSE, tables |-> tables]
             ELSE IF \/ Uint16At(d, 6) = 0 /\ tables[iLoca].origLength # (Uint16At(d, 4) + 1) * 2
                     \/ Uint16At(d, 6) = 1 /\ tables[iLoca].origLength # (Uint16At(d, 4) + 1) * 4
             THEN [ok |-> FALSE, tables |-> tables]
             ELSE [ok |-> TRUE, tables |-> tables]])])])

\* the hmtx table put back: [ok, tables]
woff2Hmtx(tables) ==
    With([iHmtx \in {woff2Index(tables, "hmtx")} |->
      IF iHmtx = 0 \/ tables[iHmtx].transformVersion # 1 THEN [ok |-> TRUE, tables |-> tables]
      ELSE IF \E tag \in {"head", "glyf", "loca", "maxp", "hhea"} : woff2Index(tables, tag) = 0
      THEN [ok |-> FALSE, tables |-> tables]
      ELSE With([h \in {reconstructHmtx(tables[iHmtx].data,
                                tables[woff2Index(tables, "head")].data,
                                tables[woff2Index(tables, "glyf")].data,
                                tables[woff2Index(tables, "loca")].data,
                                tables[woff2Index(tables, "maxp")].data,
                                tables[woff2Index(tables, "hhea")].data)} |->
             IF ~h.ok THEN [ok |-> FALSE, tables |-> tables]
             ELSE [ok |-> TRUE, tables |-> [tables EXCEPT ![iHmtx].data = h.b]]])])

\* the SFNT file assembled at the end of ParseWOFF2; head has its
\* checkSumAdjustment cleared
woff2SFNT(flavor, numTables, tables) ==
    With([tags \in {SortTags({tables[i].tag : i \in 1..Len(tables)})} |->
    With([data \in {[k \in 1..Len(tags) |-> tables[woff2Index(tables, tags[k])].data]} |->
    With([sfntOffset \in {[k \in 1..Len(tags) |->
            12 + 16 * numTables + SeqSum([j \in 1..(k - 1) |-> Len(Pad4(data[j]))])]} |->
    With([entrySelector \in {Log2Floor(numTables)} |->
    With([searchRange \in {U16(Pow2(entrySelector) * 16)} |->
    With([buf \in {flavor \o BE16(numTables) \o BE16(searchRange) \o BE16(entrySelector)
         \o BE16(U16(numTables * 16 - searchRange))
         \o Flatten([k \in 1..Len(tags) |->
                       TagBytes(tags[k]) \o BE32W(calcChecksum(Pad4(data[k])))
                       \o BE32(sfntOffset[k]) \o BE32(Len(data[k]))])
         \o Flatten([k \in 1..Len(tags) |-> Pad4(data[k])])} |->
      Put(buf, sfntOffset[CHOOSE k \in 1..Len(tags) : tags[k] = "head"] + 8,
          BE32W(Sub32(ChecksumMagic, calcChecksum(buf))))])])])])])])

\* ParseWOFF2 of a file that WriteWOFF2 gave (its length field is the file's
\* length): [ok, b]
ParseWOFF2(file) ==
    IF file.signature # "wOF2" \/ file.flavor = <<116, 116, 99, 102>>
       \/ file.numTables = 0 \/ file.reserved # 0
    THEN [ok |-> FALSE, b |-> <<>>]
    ELSE
    With([dir \in {woff2Directory(NewBinaryReader(file.directory), file.numTables, <<>>, 0)} |->
      IF ~dir.ok THEN [ok |-> FALSE, b |-> <<>>]
      ELSE
      With([iGlyf \in {woff2Index(dir.tables, "glyf")} |->
      With([iLoca \in {woff2Index(dir.tables, "loca")} |->
      With([data \in {BrotliDecode(file.compData)} |->
        IF (iGlyf # 0) # (iLoca # 0)
           \/ (iGlyf # 0 /\ dir.tables[iGlyf].transformVersion
                            # dir.tables[iLoca].transformVersion)
        THEN [ok |-> FALSE, b |-> <<>>]
        ELSE IF iLoca # 0 /\ dir.tables[iLoca].transformLength # 0
        THEN [ok |-> FALSE, b |-> <<>>]
        ELSE IF Len(data) # dir.uncompressedSize THEN [ok |-> FALSE, b |-> <<>>]
        ELSE
        With([t1 \in {woff2TableBytes(dir.tables, data, 1, 0)} |->
          IF ~t1.ok THEN [ok |-> FALSE, b |-> <<>>]
          ELSE
          With([t2 \in {woff2Glyf(t1.tables)} |->
            IF ~t2.ok THEN [ok |-> FALSE, b |-> <<>>]
            ELSE
            With([t3 \in {woff2Hmtx(t2.tables)} |->
              IF ~t3.ok THEN [ok |-> FALSE, b |-> <<>>]
              ELSE
              With([iHead \in {woff2Index(t3.tables, "head")} |->
                IF iHead = 0 \/ Len(t3.tables[iHead].data) < 18
                THEN [ok |-> FALSE, b |-> <<>>]
                ELSE IF ~Bit(Uint16At(t3.tables[iHead].data, 16), 11)
                THEN [ok |-> FALSE, b |-> <<>>]
                ELSE IF woff2Index(t3.tables, "DSIG") # 0 THEN [ok |-> FALSE, b |-> <<>>]
                ELSE [ok |-> TRUE,
                      b |-> woff2SFNT(file.flavor, file.numTables,
                                [t3.tables EXCEPT ![iHead].data = Put(@, 8, <<0, 0, 0, 0>>)])]
              ])])])])])])])])

\* the table map parseSFNT reads through the directory of an SFNT file
parseSFNTTables(b) ==
    LET numTables == Uint16At(b, 4)
        tagAt(i) == TagOf(Slice(b, 12 + 16 * (i - 1), 16 + 16 * (i - 1)))
        offsetAt(i) == Small32At(b, 12 + 16 * (i - 1) + 8)
        lengthAt(i) == Small32At(b, 12 + 16 * (i - 1) + 12)
    IN  [tag \in {tagAt(i) : i \in 1..numTables} |->
           LET i == CHOOSE j \in 1..numTables : tagAt(j) = tag
           IN  Slice(b, offsetAt(i), offsetAt(i) + lengthAt(i))]

(***************************************************************************)
(* Specification of Write: a parsed font, written once                    *)
(***************************************************************************)
MaxTableLen == 5      \* longest opaque table body in the written fonts
MaxNow == 2           \* values of the clock read by Write

AdjValues == {<<0, 0>>, <<0, 1>>, ChecksumMagic, <<MaxUint16, MaxUint16>>}
OpaqueBodies == {[i \in 1..n |-> 17 * i] : n \in {1, 4, MaxTableLen}}

WriteFonts ==
    { [IsTrueType |-> tt, IsCFF |-> ~tt,
       Tables |-> [t \in ({"head"} \cup extra) |->
                     IF t = "head" THEN HeadBytes(adj, 0, 0) ELSE body]]
      : tt \in BOOLEAN, adj \in AdjValues, body \in OpaqueBodies,
        extra \in SUBSET {"cmap", "maxp", "OS/2"} }

InitWrite ==
    /\ sfnt \in WriteFonts
    /\ sfnt2 = None
    /\ call = None
    /\ ret = None
    /\ pc = "idle"

DoWrite ==
    /\ pc = "idle"
    /\ call = None
    /\ \E now \in 1..MaxNow :
          /\ call' = [op |-> "Write", now |-> now]
          /\ ret' = Write(sfnt, now)
    /\ pc' = "done"
    /\ UNCHANGED <<sfnt, sfnt2>>

NextWrite == DoWrite

SpecWrite == InitWrite /\ [][NextWrite]_vars

\* the head table's stored checkSumAdjustment before the call
StoredAdjustment(f) == Uint32At(f.Tables["head"], 8)

\* C1: the big-endian 32-bit words of every file Write returns sum to
\* 0xB1B0AFBA modulo 2^32, whatever checkSumAdjustment the stored head held.
C1_FileSumIsMagic ==
    (pc = "done" /\ call.op = "Write") => calcChecksum(ret) = ChecksumMagic

(***************************************************************************)
(* Specification of Merge: two parsed fonts, merged once                   *)
(***************************************************************************)
KernPairs(keys) ==
    << [Coverage |-> Uint8ToFlags(1),
        Pairs |-> [i \in 1..Len(keys) |-> [Key |-> keys[i], Value |-> -10 * i]]] >>

PrimaryGlyphs == { <<Triangle(8), Triangle(10)>>,
                   <<<<>>, Triangle(10), Composite(1, 5, 5)>> }
SecondaryGlyphs == { << <<>> >>,
                     <<<<>>, Curve(20)>>,
                     <<Triangle(8), Triangle(20), Composite2(1, 1, 3, 4)>> }
PrimaryKerns == { <<>>, KernPairs(<< <<1, 1>> >>) }
SecondaryKerns == { <<>>, KernPairs(<< <<0, 1>>, <<1, 1>>, <<1, 17>>, <<2, 1>> >>) }
SecondaryRunes == {65, 66}

PrimaryFonts ==
    { parseSFNT(FontTables(glyphs, format, [i \in 1..Len(glyphs) |-> 500],
                           [i \in 1..Len(glyphs) |-> i], (65 :> 1), kern,
                           <<<<0, 1>>, <<0, 0>>, <<0, 0>>, <<0, 0>>>>))
      : glyphs \in PrimaryGlyphs, format \in {0, 1}, kern \in PrimaryKerns } \cup {CFFFont}

SecondaryFonts ==
    { parseSFNT(FontTables(glyphs, format, [i \in 1..Len(glyphs) |-> 400 + 100 * (i \div 2)],
                           [i \in 1..Len(glyphs) |-> -i],
                           IF Len(glyphs) < 2 THEN <<>> ELSE (r :> 1), kern,
                           <<<<0, 3>>, <<32768, 0>>, <<0, 0>>, <<0, 0>>>>))
      : glyphs \in SecondaryGlyphs, format \in {0, 1}, kern \in SecondaryKerns,
        r \in SecondaryRunes } \cup {CFFFont}

InitMerge ==
    /\ sfnt \in PrimaryFonts
    /\ sfnt2 \in SecondaryFonts
    /\ call = [op |-> "none"]
    /\ ret = "none"
    /\ pc = "idle"

\* one call sfnt.Merge(sfnt2, MergeOptions{IdentityCmap}); call.before keeps the
\* receiver as it was when the call started
DoMerge ==
    /\ pc = "idle"
    /\ ~(sfnt.IsCFF /\ sfnt2.IsCFF)
    /\ \E IdentityCmap \in BOOLEAN :
          \E m \in {Merge(sfnt, sfnt2, IdentityCmap)} :
              /\ sfnt' = m.font
              /\ ret' = m.status
              /\ call' = [op |-> "Merge", IdentityCmap |-> IdentityCmap, before |-> sfnt]
    /\ pc' = "done"
    /\ UNCHANGED sfnt2

NextMerge == DoMerge

SpecMerge == InitMerge /\ [][NextMerge]_vars

Merged == pc = "done" /\ call.op = "Merge"

\* a successful merge of two TrueType fonts that added glyphs
MergedGlyphs == Merged /\ ret = "ok" /\ sfnt.IsTrueType /\ 2 <= NumGlyphs(sfnt2)

\* C2: when Merge returns an error the receiver is exactly as it was before
\* the call: maxp.numGlyphs, the bytes of every table and every parsed view.
C2_ErrorLeavesReceiver ==
    (Merged /\ ret = "error") => sfnt = call.before

\* the payload merged glyph g comes from: primary glyph g below origNumGlyphs,
\* secondary glyph g - origNumGlyphs + 1 (its component ids renumbered) above
SourcePayload(before, f2, g) ==
    LET origNumGlyphs == NumGlyphs(before)
        g2 == g - origNumGlyphs + 1
        b == glyfGet(GlyfOf(f2), g2)
    IN  IF g < origNumGlyphs THEN glyfGet(GlyfOf(before), g)
        ELSE IF IsComposite(GlyfOf(f2), g2) THEN patchComposite(b, 0, 10, origNumGlyphs)
        ELSE b

\* C9: after a successful Merge of two TrueType fonts loca holds numGlyphs+1
\* entries of the width head.indexToLocFormat selects, and every merged glyph's
\* bytes glyf[loca[g] .. loca[g+1]) are the payload of its source glyph.
C9_LocaMatchesGlyphs ==
    MergedGlyphs =>
        /\ sfnt.Loca.Format = sfnt.Head.IndexToLocFormat
        /\ Len(sfnt.Tables["loca"])
             = (IF sfnt.Head.IndexToLocFormat = 0 THEN 2 ELSE 4) * (NumGlyphs(sfnt) + 1)
        /\ \A g \in 0..(NumGlyphs(sfnt) - 1) :
              glyfGet(GlyfOf(sfnt), g) = SourcePayload(call.before, sfnt2, g)

\* the subtable C10 expects for one secondary subtable: the pairs that do not
\* touch glyph 0, both ids raised by origNumGlyphs - 1, values unchanged
OffsetPairs(subtable, origNumGlyphs) ==
    LET Keep(pair) == pair.Key[1] # 0 /\ pair.Key[2] # 0
        kept == SelectSeq(subtable.Pairs, Keep)
    IN  [i \in 1..Len(kept) |->
           [Key |-> <<kept[i].Key[1] + origNumGlyphs - 1, kept[i].Key[2] + origNumGlyphs - 1>>,
            Value |-> kept[i].Value]]

\* C10: after Merge of two TrueType fonts that both have a kern table, the
\* subtable appended for each secondary subtable holds exactly the secondary's
\* pairs with both glyph ids non-zero, ids raised by origNumGlyphs - 1.
C10_KernPairsOffset ==
    (MergedGlyphs /\ Has(call.before, "kern") /\ Has(sfnt2, "kern")) =>
        LET n1 == Len(call.before.Kern.Subtables)
        IN  /\ Len(sfnt.Kern.Subtables) = n1 + Len(sfnt2.Kern.Subtables)
            /\ \A k \in 1..Len(sfnt2.Kern.Subtables) :
                  sfnt.Kern.Subtables[n1 + k].Pairs
                    = OffsetPairs(sfnt2.Kern.Subtables[k], NumGlyphs(call.before))

(***************************************************************************)
(* Specification of Subset: a parsed font, subset once                     *)
(***************************************************************************)
MaxListLen == 3       \* longest glyph id list passed to Subset

\* glyph 0 has an outline; glyph 3 is a composite of glyph 1, glyph 4 of
\* glyphs 0 and 2
SubsetGlyphs ==
    <<Triangle(8), Triangle(10), Curve(20), Composite(1, 5, 5), Composite2(0, 2, 3, 4)>>

\* 'A' and 'a' share glyph 1
SubsetRuneMap == (65 :> 1) @@ (97 :> 1) @@ (66 :> 2) @@ (67 :> 3)

SubsetFonts ==
    { parseSFNT(FontTables(SubsetGlyphs, v[1], <<500, 600, 700, 800, 800>>,
                           <<1, 2, 3, 4, 5>>, SubsetRuneMap, v[2],
                           <<<<0, 1>>, <<0, 0>>, <<0, 0>>, <<0, 3>>>>))
      : v \in { <<0, <<>> >>, <<1, KernPairs(<< <<1, 2>>, <<2, 3>> >>)>> } }

GlyphLists == UNION { [1..n -> 0..(Len(SubsetGlyphs) - 1)] : n \in 1..MaxListLen }

TableOptions == { <<"min">>, <<"pdf">>, <<"all">>, <<"cmap", "hmtx", "maxp", "OS/2">> }

InitSubset ==
    /\ sfnt \in SubsetFonts
    /\ sfnt2 = None
    /\ call = [op |-> "none"]
    /\ ret = [status |-> "none"]
    /\ pc = "idle"

\* one call sfnt.Subset(glyphIDs, SubsetOptions{Tables}); call.before keeps the
\* receiver as it was when the call started, ret is the returned font and error
DoSubset ==
    /\ pc = "idle"
    /\ \E glyphIDs \in GlyphLists, Tables \in TableOptions :
          \E r \in {Subset(sfnt, glyphIDs, Tables)} :
              /\ sfnt' = r.sfntOld
              /\ ret' = [sfnt |-> r.sfnt, status |-> r.status]
              /\ call' = [op |-> "Subset", glyphIDs |-> glyphIDs, Tables |-> Tables,
                          before |-> sfnt]
    /\ pc' = "done"
    /\ UNCHANGED sfnt2

NextSubset == DoSubset

SpecSubset == InitSubset /\ [][NextSubset]_vars

Subsetted == pc = "done" /\ call.op = "Subset" /\ ret.status = "ok"

\* the tables of the returned font
SubsetHas(tag) == tag \in DOMAIN ret.sfnt.Tables

\* the position of glyph id g in the list (the last one, as the glyph map holds
\* it), counted from 0
Position(glyphIDs, g) ==
    (CHOOSE i \in 1..Len(glyphIDs) :
        glyphIDs[i] = g /\ \A j \in (i + 1)..Len(glyphIDs) : glyphIDs[j] # g) - 1

\* the ids of the given list that are drawn as in the source: the non-zero ids
\* whose composite dependencies do not hold glyph 0
DrawnAsSource(f, glyphIDs) ==
    {g \in Range(glyphIDs) : g # 0 /\ 0 \notin Range(Dependencies(GlyfOf(f), g).deps)}

StoredUnicodeRange(b) == [i \in 1..4 |-> Uint32At(b, 42 + 4 * (i - 1))]

\* C5: when Subset keeps both cmap and OS/2, the ulUnicodeRange words written
\* into the subset's OS/2 table are the words computed from the runes of the
\* subset's new cmap (all its runes, or those mapped to a non-zero glyph).
C5_UnicodeRangeFromNewCmap ==
    (Subsetted /\ SubsetHas("cmap") /\ SubsetHas("OS/2")) =>
        LET rs == cmapRunes(ret.sfnt.Cmap)
            mapped == {r \in rs : cmapGet(ret.sfnt.Cmap, r) # 0}
        IN  StoredUnicodeRange(ret.sfnt.Tables["OS/2"])
                \in {os2UlUnicodeRange(RunesOf(rs)), os2UlUnicodeRange(RunesOf(mapped))}

\* C6: Subset does not change the font it is called on: every table and every
\* parsed view, the ulUnicodeRange fields of the OS/2 view included, is as it
\* was before the call.
C6_SubsetLeavesSource ==
    (pc = "done" /\ call.op = "Subset") => sfnt = call.before

\* the runes the source cmap maps to a non-zero glyph
MappedRunes(f) == {r \in cmapRunes(f.Cmap) : cmapGet(f.Cmap, r) # 0}

\* C7: if the list is glyph 0 followed by the source glyphs of a set of runes R,
\* each mapped to a non-zero glyph, then Subset succeeds and the subset's cmap
\* maps every rune of R to a position of its glyph in the list, which is not 0.
C7_EveryRuneOfRMapped ==
    (pc = "done" /\ call.op = "Subset" /\ "cmap" \in Range(subsetTags(call.before, call.Tables))) =>
        \A R \in SUBSET MappedRunes(call.before) :
            (/\ R # {}
             /\ call.glyphIDs[1] = 0
             /\ Range(Tail(call.glyphIDs)) = {cmapGet(call.before.Cmap, r) : r \in R}) =>
                /\ ret.status = "ok"
                /\ \A r \in R :
                      /\ cmapGet(ret.sfnt.Cmap, r) # 0
                      /\ call.glyphIDs[cmapGet(ret.sfnt.Cmap, r) + 1]
                             = cmapGet(call.before.Cmap, r)

\* the source glyph behind every glyph of the subset, read off the left side
\* bearings (every source glyph has its own)
ResultGlyphIDs ==
    [k \in 1..NumGlyphs(ret.sfnt) |->
       CHOOSE g \in 0..(NumGlyphs(call.before) - 1) :
          LeftSideBearing(call.before.Hmtx, g) = LeftSideBearing(ret.sfnt.Hmtx, k - 1)]

\* the composite dependencies of the non-zero ids of the list that the list
\* does not hold
MissingDependencies(f, glyphIDs) ==
    UNION {Range(Dependencies(GlyfOf(f), glyphIDs[i]).deps) :
              i \in {j \in 1..Len(glyphIDs) : glyphIDs[j] # 0}} \ Range(glyphIDs)

\* ids is given followed by the missing dependencies, each once
GivenThenDependencies(ids, given, missing) ==
    /\ Len(given) <= Len(ids)
    /\ SubSeq(ids, 1, Len(given)) = given
    /\ Range(SubSeq(ids, Len(given) + 1, Len(ids))) = missing
    /\ Len(ids) - Len(given) = Cardinality(missing)

\* C8 as stated: glyph 0 of the result is the source's glyph 0; id 0 is put in
\* front of the list when the list lacks it, the given ids follow in the given
\* order and the composite dependencies come after them.
C8_NotdefPrepended ==
    (Subsetted /\ SubsetHas("hmtx") /\ SubsetHas("maxp")) =>
        LET given == IF 0 \in Range(call.glyphIDs) THEN call.glyphIDs
                     ELSE <<0>> \o call.glyphIDs
        IN  /\ ResultGlyphIDs[1] = 0
            /\ GivenThenDependencies(ResultGlyphIDs, given,
                                     MissingDependencies(call.before, call.glyphIDs) \ {0})

\* C8: Subset adds no glyph 0: glyph i of the result is the i-th id of the given
\* list, in the given order, and the composite dependencies of the listed
\* non-zero ids that the list does not hold are appended after them, each once.
C8_GivenOrderThenDependencies ==
    (Subsetted /\ SubsetHas("hmtx") /\ SubsetHas("maxp")) =>
        GivenThenDependencies(ResultGlyphIDs, call.glyphIDs,
                              MissingDependencies(call.before, call.glyphIDs))

\* a subset of a list without id 0 that got a dependency appended
C8_Witness ==
    /\ Subsetted /\ SubsetHas("hmtx") /\ SubsetHas("maxp")
    /\ 0 \notin Range(call.glyphIDs)
    /\ ResultGlyphIDs[1] # 0
    /\ Len(call.glyphIDs) < NumGlyphs(ret.sfnt)

(***************************************************************************)
(* Specification of WriteWOFF2 and ParseWOFF2: a parsed TrueType font is   *)
(* written as WOFF2 and the file is parsed back                            *)
(***************************************************************************)
MaxExtraGlyphs == 2   \* glyphs that follow glyph 0 in the fonts

\* a simple glyph stored with one flag per point and two bytes per delta, padded
\* to a multiple of four: on-curve points (5,0), (w,0), (5,w)
Verbose(w) ==
    BE16(1) \o BE16(5) \o BE16(0) \o BE16(w) \o BE16(w)
    \o BE16(2) \o BE16(0) \o <<1, 1, 1>>
    \o BE16(5) \o BE16(w - 5) \o BE16(5 - w) \o BE16(0) \o BE16(0) \o BE16(w)
    \o <<0, 0, 0>>

\* a composite glyph of one component with two bytes of instructions
\* (WE_HAVE_INSTRUCTIONS | ARGS_ARE_XY_VALUES)
InstructedComposite(subGlyphID) ==
    BE16(65535) \o BE16(0) \o BE16(0) \o BE16(100) \o BE16(100)
    \o BE16(258) \o BE16(subGlyphID) \o <<5, 5>>
    \o BE16(2) \o <<176, 0>>

\* the xMin a glyph's header gives; an empty glyph has none and counts as 0
GlyphXMin(b) == IF b = <<>> THEN 0 ELSE I16(Uint16At(b, 2))

WOFF2GlyphLists ==
    { <<g>> \o rest :
        g \in {Triangle(8), Verbose(20)},
        rest \in UNION { [1..n -> {Triangle(12), Verbose(32), <<>>, Composite(0, 5, 5),
                                   InstructedComposite(0)}] : n \in 1..MaxExtraGlyphs } }

\* the tables of a font whose left side bearings are the xMins of its glyphs
WOFF2Tables(glyphs, format, flags, numberOfHMetrics) ==
    LET n == Len(glyphs)
        t == FontTables(glyphs, format, [i \in 1..n |-> 500 + i],
                        [i \in 1..n |-> GlyphXMin(glyphs[i])], (65 :> 0), <<>>,
                        <<<<0, 1>>, <<0, 0>>, <<0, 0>>, <<0, 0>>>>)
    IN  [tag \in DOMAIN t |->
           IF tag = "head" THEN Put(t[tag], 16, BE16(flags))
           ELSE IF tag = "hhea" THEN HheaBytes(numberOfHMetrics)
           ELSE IF tag = "hmtx"
           THEN Flatten([i \in 1..n |->
                           (IF i <= numberOfHMetrics THEN BE16(500 + i) ELSE <<>>)
                           \o BE16(GlyphXMin(glyphs[i]))])
           ELSE t[tag]]

WOFF2Fonts ==
    { parseSFNT(WOFF2Tables(glyphs, v[1], v[2], v[3])) :
        glyphs \in WOFF2GlyphLists, v \in {0, 1} \X {0, 2048} \X {1, 2} }

\* sfnt.Length: the length of the file a font was parsed from
SfntLength(f) ==
    12 + SeqSum([i \in 1..Len(SortTags(DOMAIN f.Tables)) |->
                   16 + Len(Pad4(f.Tables[SortTags(DOMAIN f.Tables)[i]]))])

InitWOFF2 ==
    /\ sfnt \in WOFF2Fonts
    /\ sfnt2 = None
    /\ call = [op |-> "none"]
    /\ ret = [status |-> "none"]
    /\ pc = "idle"

DoWriteWOFF2 ==
    /\ pc = "idle"
    /\ ret' = [status |-> "ok", file |-> WriteWOFF2(sfnt, SfntLength(sfnt))]
    /\ call' = [op |-> "WriteWOFF2"]
    /\ pc' = "written"
    /\ UNCHANGED <<sfnt, sfnt2>>

DoParseWOFF2 ==
    /\ pc = "written"
    /\ \E r \in {ParseWOFF2(ret.file)} :
          ret' = [status |-> IF r.ok THEN "ok" ELSE "error", b |-> r.b]
    /\ call' = [op |-> "ParseWOFF2", file |-> ret.file]
    /\ pc' = "parsed"
    /\ UNCHANGED <<sfnt, sfnt2>>

NextWOFF2 == DoWriteWOFF2 \/ DoParseWOFF2

SpecWOFF2 == InitWOFF2 /\ [][NextWOFF2]_vars

\* two head tables equal apart from checkSumAdjustment (bytes 8 to 12), bit 11
\* of flags (bytes 16 to 18) and modified (bytes 28 to 36)
SameHead(a, b) ==
    /\ Len(a) = Len(b)
    /\ \A k \in 0..(Len(a) - 1) :
          k \in (8..11) \cup (16..17) \cup (28..35) \/ a[k + 1] = b[k + 1]
    /\ Len(a) >= 18 =>
          /\ Uint16At(a, 16) % 2048 = Uint16At(b, 16) % 2048
          /\ Uint16At(a, 16) \div 4096 = Uint16At(b, 16) \div 4096

\* the tables of the file ParseWOFF2 returned are those of the font: the same
\* tags, every table but glyf, loca and head byte for byte, head apart from the
\* fields the format rewrites, and every glyph with the outline it had
SameTables(f, b) ==
    With([tables \in {parseSFNTTables(b)} |->
      /\ DOMAIN tables = DOMAIN f.Tables
      /\ \A tag \in DOMAIN tables \ {"glyf", "loca", "head"} : tables[tag] = f.Tables[tag]
      /\ SameHead(f.Tables["head"], tables["head"])
      /\ With([g \in {parseSFNT(tables)} |->
           /\ NumGlyphs(g) = NumGlyphs(f)
           /\ \A glyphID \in 0..(NumGlyphs(f) - 1) :
                 Contour(GlyfOf(g), glyphID) = Contour(GlyfOf(f), glyphID)])])

\* the left side bearings of hmtx are the xMin of their glyphs
LsbsAreXMins(f) ==
    \A glyphID \in 0..(NumGlyphs(f) - 1) :
       With([b \in {glyfGet(GlyfOf(f), glyphID)} |->
          b = None \/ LeftSideBearing(f.Hmtx, glyphID) = GlyphXMin(b)])

\* C4: for every parsed TrueType font whose left side bearings are the xMin of
\* their glyphs, whether its glyphs are simple, empty or composite,
\* ParseWOFF2(WriteWOFF2(f)) succeeds and returns an SFNT file with the tables
\* of f and their content
C4_RoundTripKeepsTables ==
    (pc = "parsed" /\ LsbsAreXMins(sfnt)) =>
        /\ ret.status = "ok"
        /\ SameTables(sfnt, ret.b)

(***************************************************************************)
(* Specification of WriteWOFF2 and ParseWOFF2 over fonts whose simple      *)
(* glyphs may carry the OVERLAP_SIMPLE flag                                *)
(***************************************************************************)
\* Triangle(w) with OVERLAP_SIMPLE (0x40) in its first flag
Overlapping(w) ==
    BE16(1) \o BE16(0) \o BE16(0) \o BE16(w) \o BE16(w)
    \o BE16(2) \o BE16(0) \o <<119, 55, 39>> \o <<0, w, w>> \o <<0, 0, w>> \o <<0>>

OverlapGlyphLists ==
    { <<g>> \o rest :
        g \in {Triangle(8), Overlapping(8)},
        rest \in UNION { [1..n -> {Triangle(12), Overlapping(12), Curve(12), <<>>}] :
                           n \in 1..MaxExtraGlyphs } }

OverlapFonts ==
    { parseSFNT(WOFF2Tables(glyphs, format, 0, Len(glyphs))) :
        glyphs \in OverlapGlyphLists, format \in {0, 1} }

InitOverlap ==
    /\ sfnt \in OverlapFonts
    /\ sfnt2 = None
    /\ call = [op |-> "none"]
    /\ ret = [status |-> "none"]
    /\ pc = "idle"

SpecOverlap == InitOverlap /\ [][NextWOFF2]_vars

\* the transformed glyf table a WOFF2 file carries
woff2TransformedGlyf(file) ==
    With([dir \in {woff2Directory(NewBinaryReader(file.directory), file.numTables, <<>>, 0)} |->
    With([t \in {woff2TableBytes(dir.tables, BrotliDecode(file.compData), 1, 0)} |->
      t.tables[woff2Index(t.tables, "glyf")].data])])

\* the overlapSimple bitmap of a transformed glyf table: the bytes that follow
\* the seven streams, as <<bitmap>>; <<>> when bit 0 of optionFlags is clear
overlapSimpleBitmap(b) ==
    IF Uint16At(b, 2) % 2 = 0 THEN <<>>
    ELSE With([start \in {36 + SeqSum([k \in 1..7 |-> Small32At(b, 8 + 4 * (k - 1))])} |->
           <<Slice(b, start, start + ((Uint16At(b, 4) + 31) \div 32) * 4)>>])

\* the first flag byte of a simple glyph: it follows the header, the end points
\* and the instructions
FirstFlag(b) ==
    With([n \in {Uint16At(b, 0)} |->
      b[10 + 2 * n + 2 + Uint16At(b, 10 + 2 * n) + 1]])

\* a glyph with one contour or more
IsSimpleGlyph(b) == b # <<>> /\ b # None /\ I16(Uint16At(b, 0)) > 0

\* C12: when the transformed glyf table carries an overlapSimple bitmap, after
\* ParseWOFF2 every simple glyph whose bit of the bitmap, taken at the glyph's
\* id, is set has OVERLAP_SIMPLE (0x40) in its first flag byte
C12_OverlapBitPerGlyph ==
    (pc = "parsed" /\ ret.status = "ok") =>
        With([bitmap \in {overlapSimpleBitmap(woff2TransformedGlyf(call.file))} |->
        With([g \in {parseSFNT(parseSFNTTables(ret.b))} |->
          bitmap # <<>> =>
             \A glyphID \in 0..(NumGlyphs(g) - 1) :
                (BitmapRead(bitmap[1], glyphID) /\ IsSimpleGlyph(glyfGet(GlyfOf(g), glyphID)))
                   => Bit(FirstFlag(glyfGet(GlyfOf(g), glyphID)), 6)])])

(***************************************************************************)
(* Specification of Kerning: a parsed kern table is asked for one pair     *)
(***************************************************************************)
MaxSubtables == 3   \* subtables of a kern table

\* kernTable.Get: the subtables in table order, a kerning subtable adds to k
\* (int16), a minimum subtable raises k to the value it gives when k is below
RECURSIVE kernTableGet(_, _, _, _, _)
kernTableGet(Subtables, i, l, r, k) ==
    IF i > Len(Subtables) THEN k
    ELSE IF ~Subtables[i].Coverage[2]
    THEN kernTableGet(Subtables, i + 1, l, r, I16(U16(k + kernGet(Subtables[i], l, r))))
    ELSE With([min \in {kernGet(Subtables[i], l, r)} |->
           kernTableGet(Subtables, i + 1, l, r, IF k < min THEN min ELSE k)])

\* SFNT.Kerning: 0 without a kern table
Kerning(f, left, right) ==
    IF f.Kern = Nil THEN 0 ELSE kernTableGet(f.Kern.Subtables, 1, left, right, 0)

\* a format 0 subtable of sorted pairs, with or without the minimum flag
KernSubtable(minimum, Pairs) ==
    [Coverage |-> Uint8ToFlags(IF minimum THEN 3 ELSE 1), Pairs |-> Pairs]

KernPairLists ==
    { <<>>,
      << [Key |-> <<1, 2>>, Value |-> -30] >>,
      << [Key |-> <<1, 2>>, Value |-> 20] >>,
      << [Key |-> <<0, 1>>, Value |-> 5], [Key |-> <<1, 2>>, Value |-> -10] >>,
      << [Key |-> <<3, 4>>, Value |-> -5] >> }

KernSubtables == { KernSubtable(minimum, Pairs) : minimum \in BOOLEAN, Pairs \in KernPairLists }

KernTables == UNION { [1..n -> KernSubtables] : n \in 1..MaxSubtables }

InitKern ==
    /\ sfnt \in { [Kern |-> [Subtables |-> t]] : t \in KernTables } \cup { [Kern |-> Nil] }
    /\ sfnt2 = None
    /\ call = [op |-> "none"]
    /\ ret = 0
    /\ pc = "idle"

DoKerning ==
    /\ pc = "idle"
    /\ \E left \in {0, 1}, right \in {1, 2} :
          /\ call' = [op |-> "Kerning", left |-> left, right |-> right]
          /\ ret' = Kerning(sfnt, left, right)
    /\ pc' = "done"
    /\ UNCHANGED <<sfnt, sfnt2>>

NextKern == DoKerning

SpecKern == InitKern /\ [][NextKern]_vars

\* the sum (int16) of the pair's values over the kerning subtables
KerningSum(Subtables, l, r) ==
    I16(U16(SeqSum([i \in 1..Len(Subtables) |->
                      IF Subtables[i].Coverage[2] THEN 0 ELSE kernGet(Subtables[i], l, r)])))

\* the values the minimum subtables give for the pair (0 where a subtable does
\* not list it, as kernFormat0.Get has it)
KerningMinima(Subtables, l, r) ==
    { kernGet(Subtables[i], l, r) : i \in { j \in 1..Len(Subtables) : Subtables[j].Coverage[2] } }

\* C13: Kerning(l, r) is the sum of the pair's values over the kerning
\* subtables, clamped from below, after the whole sum is taken, by the values
\* the minimum subtables hold for the pair, wherever the minimum subtables sit
C13_SumThenClamp ==
    (pc = "done" /\ sfnt.Kern # Nil) =>
        With([sum \in {KerningSum(sfnt.Kern.Subtables, call.left, call.right)} |->
        With([minima \in {KerningMinima(sfnt.Kern.Subtables, call.left, call.right)} |->
          /\ ret >= sum
          /\ \A m \in minima : ret >= m
          /\ ret \in {sum} \cup minima])])

(***************************************************************************)
(* Specification of parseCmap and ToUnicode: a cmap table of one or two    *)
(* encoding records is parsed and a subtable is asked for a glyph's rune   *)
(***************************************************************************)
\* parseCmap, format 0 subtable at b (the subtable's bytes, its length applied)
parseCmapFormat0(b, numGlyphs) ==
    IF Len(b) - 4 < 258 THEN CmapErr
    ELSE IF \E i \in 1..256 : numGlyphs <= b[6 + i] THEN CmapErr
    ELSE [format |-> 0, GlyphIdArray |-> [i \in 1..256 |-> b[6 + i]]]

\* parseCmap, format 6 subtable at b; its glyph ids are taken as they are
parseCmapFormat6(b) ==
    IF Len(b) - 4 < 6 THEN CmapErr
    ELSE With([entryCount \in {Uint16At(b, 8)} |->
           IF Len(b) - 10 < 2 * entryCount THEN CmapErr
           ELSE [format |-> 6, FirstCode |-> Uint16At(b, 6),
                 GlyphIdArray |-> [i \in 1..entryCount |-> Uint16At(b, 10 + 2 * (i - 1))]]])

\* format and length of the subtable that starts at offset: length -1 for a
\* format parseCmap does not know
cmapSubtableLength(b, offset) ==
    With([format \in {Uint16At(b, offset)} |->
      IF format \in {0, 2, 4, 6} THEN Uint16At(b, offset + 2)
      ELSE IF format \in {8, 10, 12, 13} THEN Small32At(b, offset + 4)
      ELSE IF format = 14 THEN Small32At(b, offset + 2)
      ELSE -1])

\* one round of the encoding record loop of parseCmap.  st = [ok, offsets,
\* lengths, Subtables, EncodingRecords]; offsets and lengths start with the
\* header and the encoding records as entry 1
parseCmapRecord(b, numGlyphs, j, st) ==
    With([platformID \in {Uint16At(b, 4 + 8 * j)} |->
    With([encodingID \in {Uint16At(b, 6 + 8 * j)} |->
    With([offset \in {Small32At(b, 8 + 8 * j)} |->
      IF Len(b) - 8 < offset THEN [st EXCEPT !.ok = FALSE]
      ELSE IF \E i \in 1..Len(st.offsets) : st.offsets[i] < offset /\ offset < st.lengths[i]
      THEN [st EXCEPT !.ok = FALSE]
      ELSE
      With([format \in {Uint16At(b, offset)} |->
      With([length \in {cmapSubtableLength(b, offset)} |->
        IF length < 8 THEN [st EXCEPT !.ok = FALSE]
        ELSE
        With([same \in {{i \in 1..Len(st.offsets) :
                          offset = st.offsets[i] /\ length = st.lengths[i]}} |->
        With([clash \in {{i \in 1..Len(st.offsets) :
                          offset <= st.offsets[i] /\ st.offsets[i] < offset + length}} |->
          IF \E i \in clash : \A k \in same : i < k THEN [st EXCEPT !.ok = FALSE]
          ELSE IF same # {}
          THEN [st EXCEPT !.EncodingRecords =
                  Append(@, [PlatformID |-> platformID, EncodingID |-> encodingID,
                             Format |-> format,
                             Subtable |-> (CHOOSE i \in same : \A k \in same : i <= k) - 1])]
          ELSE
          With([sub \in {Slice(b, offset, Min(Len(b), offset + length))} |->
          With([subtable \in {IF format = 0 THEN parseCmapFormat0(sub, numGlyphs)
                              ELSE IF format = 4 THEN parseCmapFormat4(sub, numGlyphs)
                              ELSE IF format = 6 THEN parseCmapFormat6(sub)
                              ELSE IF format = 12 THEN parseCmapFormat12(sub, numGlyphs)
                              ELSE IF format = 14 /\ platformID = 0 /\ encodingID = 5
                              THEN CmapEmpty
                              ELSE CmapErr} |->
            IF subtable = CmapErr THEN [st EXCEPT !.ok = FALSE]
            ELSE IF subtable = CmapEmpty
            THEN [st EXCEPT
                    !.offsets = Append(@, offset),
                    !.lengths = Append(@, length),
                    !.EncodingRecords =
                       Append(@, [PlatformID |-> platformID, EncodingID |-> encodingID,
                                  Format |-> format, Subtable |-> Len(st.Subtables)])]
            ELSE [st EXCEPT
                    !.offsets = Append(@, offset),
                    !.lengths = Append(@, length),
                    !.Subtables = Append(@, subtable),
                    !.EncodingRecords =
                       Append(@, [PlatformID |-> platformID, EncodingID |-> encodingID,
                                  Format |-> format, Subtable |-> Len(st.Subtables)])]
          ])])])])])])])])])

RECURSIVE parseCmapRecords(_, _, _, _, _)
parseCmapRecords(b, numGlyphs, j, numTables, st) ==
    IF j >= numTables \/ ~st.ok THEN st
    ELSE parseCmapRecords(b, numGlyphs, j + 1, numTables,
                          parseCmapRecord(b, numGlyphs, j, st))

\* parseCmap over every encoding record, for subtables of format 0, 4, 6 and
\* 12: [ok, offsets, lengths, Subtables, EncodingRecords]
parseCmapTable(b, numGlyphs) ==
    IF Len(b) < 4 \/ Uint16At(b, 0) # 0 \/ Len(b) < 4 + 8 * Uint16At(b, 2)
    THEN [ok |-> FALSE, offsets |-> <<>>, lengths |-> <<>>, Subtables |-> <<>>,
          EncodingRecords |-> <<>>]
    ELSE parseCmapRecords(b, numGlyphs, 0, Uint16At(b, 2),
           [ok |-> TRUE, offsets |-> <<0>>, lengths |-> <<4 + 8 * Uint16At(b, 2)>>,
            Subtables |-> <<>>, EncodingRecords |-> <<>>])

\* the glyph id segment i of a format 4 or format 12 subtable gives rune r
cmapSegmentGlyph(subtable, i, r) ==
    IF subtable.format = 4
    THEN IF subtable.IdRangeOffset[i] = 0
         THEN U16(U16(subtable.IdDelta[i] + Pow16) + r)
         ELSE subtable.GlyphIdArray[(subtable.IdRangeOffset[i] \div 2)
                                    + (r - subtable.StartCode[i])
                                    - (Len(subtable.StartCode) - (i - 1)) + 1]
    ELSE U16((r - subtable.StartCharCode[i]) + subtable.StartGlyphID[i])

\* the segments of a format 4 or format 12 subtable as <<start, end>>
cmapSegments(subtable) ==
    IF subtable.format = 4
    THEN [i \in 1..Len(subtable.StartCode) |-> <<subtable.StartCode[i], subtable.EndCode[i]>>]
    ELSE [i \in 1..Len(subtable.StartCharCode) |->
            <<subtable.StartCharCode[i], subtable.EndCharCode[i]>>]

\* Get of one subtable: [ok, glyphID]
cmapSubtableGet(subtable, r) ==
    IF subtable.format = 0
    THEN IF r < 0 \/ 256 <= r THEN [ok |-> FALSE, glyphID |-> 0]
         ELSE [ok |-> TRUE, glyphID |-> subtable.GlyphIdArray[r + 1]]
    ELSE IF subtable.format = 6
    THEN IF r < subtable.FirstCode \/ Len(subtable.GlyphIdArray) <= r - subtable.FirstCode
         THEN [ok |-> FALSE, glyphID |-> 0]
         ELSE [ok |-> TRUE, glyphID |-> subtable.GlyphIdArray[r - subtable.FirstCode + 1]]
    ELSE With([seg \in {cmapSegments(subtable)} |->
         With([hit \in {{i \in 1..Len(seg) : seg[i][1] <= r /\ r <= seg[i][2]}} |->
           IF r < 0 \/ (subtable.format = 4 /\ Pow16 <= r) \/ hit = {}
           THEN [ok |-> FALSE, glyphID |-> 0]
           ELSE [ok |-> TRUE,
                 glyphID |-> cmapSegmentGlyph(subtable,
                                CHOOSE i \in hit : \A k \in hit : i <= k, r)]])])

\* ToUnicode of one subtable: [ok, r].  Format 0 fills its reverse map in rune
\* order and every write replaces the entry; formats 4 and 12 walk the segments
\* in order and keep the entry they wrote first; format 6 returns at the first
\* array index that holds the glyph
cmapSubtableToUnicode(subtable, glyphID) ==
    IF subtable.format = 0
    THEN With([rs \in {{r \in 0..255 : subtable.GlyphIdArray[r + 1] = glyphID}} |->
           IF 256 <= glyphID \/ rs = {} THEN [ok |-> FALSE, r |-> 0]
           ELSE [ok |-> TRUE, r |-> CHOOSE r \in rs : \A q \in rs : q <= r]])
    ELSE IF subtable.format = 6
    THEN With([is \in {{i \in 1..Len(subtable.GlyphIdArray) :
                         subtable.GlyphIdArray[i] = glyphID}} |->
           IF is = {} THEN [ok |-> FALSE, r |-> 0]
           ELSE [ok |-> TRUE,
                 r |-> subtable.FirstCode + (CHOOSE i \in is : \A k \in is : i <= k) - 1]])
    ELSE With([seg \in {cmapSegments(subtable)} |->
         With([hit \in {{i \in 1..Len(seg) :
                          \E r \in seg[i][1]..seg[i][2] :
                             cmapSegmentGlyph(subtable, i, r) = glyphID}} |->
           IF hit = {} THEN [ok |-> FALSE, r |-> 0]
           ELSE With([i \in {CHOOSE i \in hit : \A k \in hit : i <= k} |->
                  [ok |-> TRUE,
                   r |-> CHOOSE r \in seg[i][1]..seg[i][2] :
                           /\ cmapSegmentGlyph(subtable, i, r) = glyphID
                           /\ \A q \in seg[i][1]..(r - 1) :
                                 cmapSegmentGlyph(subtable, i, q) # glyphID]])])])

CmapNumGlyphs == 3   \* maxp.numGlyphs of the font the cmap tables belong to

\* a format 0 subtable: runeMap gives the glyph of the runes it names, others 0
cmapFormat0Bytes(runeMap) ==
    BE16(0) \o BE16(262) \o BE16(0)
    \o [i \in 1..256 |-> IF (i - 1) \in DOMAIN runeMap THEN runeMap[i - 1] ELSE 0]

\* a format 6 subtable
cmapFormat6Bytes(language, FirstCode, GlyphIdArray) ==
    BE16(6) \o BE16(10 + 2 * Len(GlyphIdArray)) \o BE16(language) \o BE16(FirstCode)
    \o BE16(Len(GlyphIdArray)) \o Flatten([i \in 1..Len(GlyphIdArray) |-> BE16(GlyphIdArray[i])])

CmapSubtableBytes ==
    { cmapFormat0Bytes((65 :> 1) @@ (66 :> 1) @@ (67 :> 2)),
      cmapFormat0Bytes((65 :> 2) @@ (66 :> 1)),
      cmapFormat6Bytes(0, 65, <<1, 2, 1>>),
      cmapFormat6Bytes(6, 12, <<1>>),
      cmapWriteFormat4(<<65, 66, 68>>, (65 :> 1) @@ (66 :> 2) @@ (68 :> 1)),
      cmapWriteFormat4(<<65, 66>>, (65 :> 1) @@ (66 :> 1)),
      cmapWriteFormat12(<<65, 66, 68>>, (65 :> 1) @@ (66 :> 2) @@ (68 :> 1)),
      cmapWriteFormat12(<<65, 70000>>, (65 :> 2) @@ (70000 :> 2)) }

\* a cmap table of two encoding records: the first names subtable A, which
\* follows the records; the second names the bytes at offset2, where B is
\* written when it lies past A (bytes of A are never replaced)
CmapTableBytes(A, B, offset2) ==
    With([head \in {BE16(0) \o BE16(2) \o BE16(3) \o BE16(1) \o BE32(20)
                    \o BE16(0) \o BE16(3) \o BE32(offset2)} |->
      [i \in 1..Max(20 + Len(A), offset2 + Len(B)) |->
         IF i <= 20 THEN head[i]
         ELSE IF i <= 20 + Len(A) THEN A[i - 20]
         ELSE IF i > offset2 /\ i <= offset2 + Len(B) THEN B[i - offset2]
         ELSE 0]])

\* tables whose second subtable starts at the first, inside it, or behind it
CmapTables ==
    { CmapTableBytes(A, B, 20 + d) :
        A \in CmapSubtableBytes, B \in CmapSubtableBytes,
        d \in {0, 4} } \cup
    { CmapTableBytes(A, B, 20 + Len(A) + d) :
        A \in CmapSubtableBytes, B \in CmapSubtableBytes, d \in {-8, 0} }

InitCmap ==
    /\ sfnt \in { [Tables |-> [tag \in {"cmap"} |-> b], Maxp |-> [NumGlyphs |-> CmapNumGlyphs]] :
                    b \in CmapTables }
    /\ sfnt2 = None
    /\ call = [op |-> "none"]
    /\ ret = [status |-> "none"]
    /\ pc = "idle"

DoParseCmap ==
    /\ pc = "idle"
    /\ \E c \in {parseCmapTable(sfnt.Tables["cmap"], sfnt.Maxp.NumGlyphs)} :
          ret' = [status |-> IF c.ok THEN "ok" ELSE "error", Cmap |-> c]
    /\ call' = [op |-> "parseCmap"]
    /\ pc' = "parsed"
    /\ UNCHANGED <<sfnt, sfnt2>>

\* ToUnicode of one subtable of the parsed table
DoToUnicode ==
    /\ pc = "parsed"
    /\ ret.status = "ok"
    /\ \E i \in 1..Len(ret.Cmap.Subtables), glyphID \in 0..(CmapNumGlyphs - 1) :
          /\ call' = [op |-> "ToUnicode", subtable |-> ret.Cmap.Subtables[i],
                      glyphID |-> glyphID]
          /\ ret' = [status |-> "ok", Cmap |-> ret.Cmap,
                     rune |-> cmapSubtableToUnicode(ret.Cmap.Subtables[i], glyphID)]
    /\ pc' = "asked"
    /\ UNCHANGED <<sfnt, sfnt2>>

NextCmap == DoParseCmap \/ DoToUnicode

SpecCmap == InitCmap /\ [][NextCmap]_vars

\* the code points a subtable may map: those of its array or of its segments
cmapSubtableRunes(subtable) ==
    IF subtable.format = 0 THEN 0..255
    ELSE IF subtable.format = 6
    THEN subtable.FirstCode..(subtable.FirstCode + Len(subtable.GlyphIdArray) - 1)
    ELSE UNION { cmapSegments(subtable)[i][1]..cmapSegments(subtable)[i][2] :
                   i \in 1..Len(cmapSegments(subtable)) }

\* the code points whose Get is the glyph
RunesOfGlyph(subtable, glyphID) ==
    { r \in cmapSubtableRunes(subtable) :
        cmapSubtableGet(subtable, r) = [ok |-> TRUE, glyphID |-> glyphID] }

\* C14: for every parsed subtable of format 0, 4, 6 or 12 and every glyph that
\* the subtable gives to one code point or more, ToUnicode returns the least
\* code point whose Get is the glyph
C14_ToUnicodeIsFirstRune ==
    (pc = "asked" /\ RunesOfGlyph(call.subtable, call.glyphID) # {}) =>
        /\ ret.rune.ok
        /\ ret.rune.r \in RunesOfGlyph(call.subtable, call.glyphID)
        /\ \A q \in RunesOfGlyph(call.subtable, call.glyphID) : ret.rune.r <= q

\* the byte range <<offset, length>> encoding record j (from 0) names
cmapRecordRange(b, j) ==
    <<Small32At(b, 8 + 8 * j), cmapSubtableLength(b, Small32At(b, 8 + 8 * j))>>

\* two byte ranges <<offset, length>> intersect
RangesIntersect(p, q) == p[1] < q[1] + q[2] /\ q[1] < p[1] + p[2]

\* the ranges of two different subtables, or of a subtable and of the header
\* with its encoding records, intersect
CmapRangesIntersect(b) ==
    With([numTables \in {Uint16At(b, 2)} |->
      /\ \A j \in 0..(numTables - 1) : Small32At(b, 8 + 8 * j) <= Len(b) - 8
      /\ \/ \E j \in 0..(numTables - 1) :
               RangesIntersect(cmapRecordRange(b, j), <<0, 4 + 8 * numTables>>)
         \/ \E j, k \in 0..(numTables - 1) :
               /\ cmapRecordRange(b, j) # cmapRecordRange(b, k)
               /\ RangesIntersect(cmapRecordRange(b, j), cmapRecordRange(b, k))])

\* C15: parseCmap returns an error for every cmap table in which the byte
\* ranges of two different subtables, or of a subtable and of the header with
\* its encoding records, intersect
C15_IntersectingSubtablesRejected ==
    (pc = "parsed" /\ CmapRangesIntersect(sfnt.Tables["cmap"])) => ret.status = "error"

(***************************************************************************)
(* Specification of glyf ToPath over one contour of on-curve and off-curve *)
(* points                                                                  *)
(***************************************************************************)
MaxPoints == 5   \* points of the contour

\* a simple glyph of one contour: point k (from 1) lies at (100k, k*k) and is
\* on the curve when OnCurve[k]; one flag per point, two bytes per delta
ContourGlyph(OnCurve) ==
    With([n \in {Len(OnCurve)} |->
      BE16(1) \o BE16(100) \o BE16(1) \o BE16(100 * n) \o BE16(n * n)
      \o BE16(n - 1) \o BE16(0) \o [k \in 1..n |-> IF OnCurve[k] THEN 1 ELSE 0]
      \o Flatten([k \in 1..n |-> BE16(100)])
      \o Flatten([k \in 1..n |-> BE16(2 * k - 1)])])

\* the glyf table, with its loca, of a font whose only glyph is b
GlyfOfGlyph(b) ==
    [data |-> b, loca |-> [Format |-> 1, data |-> BE32(0) \o BE32(Len(b))]]

InitPath ==
    /\ sfnt \in { [Glyf |-> GlyfOfGlyph(ContourGlyph(OnCurve))] :
                    OnCurve \in UNION { [1..n -> BOOLEAN] : n \in 2..MaxPoints } }
    /\ sfnt2 = None
    /\ call = [op |-> "none"]
    /\ ret = [ok |-> FALSE, calls |-> <<>>]
    /\ pc = "idle"

DoToPath ==
    /\ pc = "idle"
    /\ ret' = ToPath(sfnt.Glyf, 0)
    /\ call' = [op |-> "ToPath", glyphID |-> 0]
    /\ pc' = "drawn"
    /\ UNCHANGED <<sfnt, sfnt2>>

NextPath == DoToPath

SpecPath == InitPath /\ [][NextPath]_vars

\* point k of a contour as ToPath emits it (coordinates doubled)
PathPoint(c, k) == <<2 * c.XCoordinates[k], 2 * c.YCoordinates[k]>>

\* the midpoint of point k and the point that follows it round the contour
PathMidpoint(c, k) ==
    With([next \in {(k % Len(c.OnCurve)) + 1} |->
      <<c.XCoordinates[k] + c.XCoordinates[next], c.YCoordinates[k] + c.YCoordinates[next]>>])

\* the point a MoveTo, LineTo or QuadTo call ends at
PathEnd(d) == IF d[1] = "QuadTo" THEN <<d[4], d[5]>> ELSE <<d[2], d[3]>>

\* C16: ToPath synthesises an on-curve midpoint only between two consecutive
\* off-curve points and uses every off-curve point as the control point of
\* exactly one QuadTo, whether the first point is on or off the curve and
\* whether the second is
C16_MidpointsBetweenOffCurvePoints ==
    (pc = "drawn" /\ ret.ok) =>
        With([c \in {Contour(sfnt.Glyf, 0)} |->
        With([n \in {Len(c.OnCurve)} |->
        With([quads \in {{i \in 1..Len(ret.calls) : ret.calls[i][1] = "QuadTo"}} |->
          /\ \A i \in quads :
                \E k \in 1..n : ~c.OnCurve[k]
                                /\ <<ret.calls[i][2], ret.calls[i][3]>> = PathPoint(c, k)
          /\ \A k \in 1..n :
                ~c.OnCurve[k] =>
                   Cardinality({i \in quads :
                                  <<ret.calls[i][2], ret.calls[i][3]>> = PathPoint(c, k)}) = 1
          /\ \A i \in 1..Len(ret.calls) :
                ret.calls[i] # ClosePath =>
                   \/ \E k \in 1..n : c.OnCurve[k] /\ PathEnd(ret.calls[i]) = PathPoint(c, k)
                   \/ \E k \in 1..n : /\ ~c.OnCurve[k]
                                      /\ ~c.OnCurve[(k % n) + 1]
                                      /\ PathEnd(ret.calls[i]) = PathMidpoint(c, k)])])])

(***************************************************************************)
(* CFF: INDEX, CharString numbers, subroutine lookup and the CharString    *)
(* interpreter (version 1)                                                 *)
(***************************************************************************)
cffHstem == 1
cffVstem == 3
cffVmoveto == 4
cffRlineto == 5
cffHlineto == 6
cffVlineto == 7
cffRrcurveto == 8
cffCallsubr == 10
cffReturn == 11
cffEscape == 12
cffEndchar == 14
cffHstemhm == 18
cffHintmask == 19
cffCntrmask == 20
cffRmoveto == 21
cffHmoveto == 22
cffVstemhm == 23
cffShortint == 28
cffCallgsubr == 29

\* the path construction operators whose operands parseCharString clears
cffPathOperators == {21, 22, 4, 5, 6, 7, 8, 27, 31, 24, 25, 30, 26, 256 + 35, 256 + 34,
                     256 + 36, 256 + 37}

\* cffINDEX = [offset, data]; an INDEX without entries has no offset
EmptyINDEX == [offset |-> <<>>, data |-> <<>>]

\* cffINDEX.Len
cffINDEXLen(t) == IF Len(t.offset) = 0 THEN 0 ELSE Len(t.offset) - 1

\* cffINDEX.Get of entry i (from 0): <<bytes>>, or <<>> for nil
cffINDEXGet(t, i) ==
    IF i < cffINDEXLen(t) THEN <<Slice(t.data, t.offset[i + 1], t.offset[i + 2])>> ELSE <<>>

\* cffINDEX.Add
cffINDEXAdd(t, data) ==
    [offset |-> (IF Len(t.offset) = 0 THEN <<0>> ELSE t.offset)
                \o <<Len(t.data) + Len(data)>>,
     data |-> t.data \o data]

\* the INDEX that Add builds of entries lo..hi of a sequence behind the
\* entries of t, by halves
RECURSIVE cffINDEXAddAll(_, _, _, _)
cffINDEXAddAll(t, entries, lo, hi) ==
    IF hi < lo THEN t
    ELSE IF lo = hi THEN cffINDEXAdd(t, entries[lo])
    ELSE With([t1 \in {cffINDEXAddAll(t, entries, lo, (lo + hi) \div 2)} |->
           cffINDEXAddAll(t1, entries, (lo + hi) \div 2 + 1, hi)])

\* the INDEX that holds the entries of a sequence
cffINDEXOf(entries) == cffINDEXAddAll(EmptyINDEX, entries, 1, Len(entries))

\* a byte of a reader's buffer, 0 past its end
cffByte(b, pos) == IF pos < Len(b) THEN b[pos + 1] ELSE 0

\* cffReadCharStringNumber, pos behind b0: [v, pos], v as 16.16 fixed point
cffReadCharStringNumber(b, pos, b0) ==
    IF b0 = 28
    THEN [v |-> I16(cffByte(b, pos) * 256 + cffByte(b, pos + 1)) * Pow16, pos |-> pos + 2]
    ELSE IF b0 < 247 THEN [v |-> (b0 - 139) * Pow16, pos |-> pos]
    ELSE IF b0 < 251
    THEN [v |-> ((b0 - 247) * 256 + cffByte(b, pos) + 108) * Pow16, pos |-> pos + 1]
    ELSE IF b0 < 255
    THEN [v |-> (0 - (b0 - 251) * 256 - cffByte(b, pos) - 108) * Pow16, pos |-> pos + 1]
    ELSE [v |-> I16(cffByte(b, pos) * 256 + cffByte(b, pos + 1)) * Pow16
                + cffByte(b, pos + 2) * 256 + cffByte(b, pos + 3),
          pos |-> pos + 4]

\* cffCharStringSubrsBias
cffCharStringSubrsBias(n) == IF n < 1240 THEN 107 ELSE IF n < 33900 THEN 1131 ELSE 32768

\* cffNumberSize
cffNumberSize(i) ==
    IF -107 <= i /\ i <= 107 THEN 1
    ELSE IF (-1131 <= i /\ i <= -108) \/ (108 <= i /\ i <= 1131) THEN 2
    ELSE IF -32767 <= i /\ i <= 32767 THEN 3
    ELSE 5

\* cffTable = [charStrings, globalSubrs, localSubrs]; localSubrs is
\* fonts.localSubrs, a sequence of one INDEX, or empty without local subroutines
\* getSubroutine: [ok, index, subr]
getSubroutine(cff, b0, stack) ==
    IF b0 = cffCallsubr /\ cff.localSubrs = <<>> THEN [ok |-> FALSE, index |-> 0, subr |-> <<>>]
    ELSE
    With([subrs \in {IF b0 = cffCallsubr THEN cff.localSubrs[1] ELSE cff.globalSubrs} |->
    With([index \in {(stack \div Pow16) + cffCharStringSubrsBias(cffINDEXLen(subrs))} |->
      IF index < 0 \/ MaxUint16 < index THEN [ok |-> FALSE, index |-> 0, subr |-> <<>>]
      ELSE With([subr \in {cffINDEXGet(subrs, index)} |->
             IF subr = <<>> THEN [ok |-> FALSE, index |-> 0, subr |-> <<>>]
             ELSE [ok |-> TRUE, index |-> index, subr |-> subr[1]]])])])

CubeTo(cx1, cy1, cx2, cy2, x, y) == <<"CubeTo", cx1, cy1, cx2, cy2, x, y>>

\* the loop of rlineto: one LineTo per operand pair
RECURSIVE cffRlinetoLoop(_, _, _)
cffRlinetoLoop(cb, stack, i) ==
    IF i > Len(stack) THEN cb
    ELSE cffRlinetoLoop([cb EXCEPT !.x = @ + stack[i], !.y = @ + stack[i + 1],
                                   !.calls = Append(@, LineTo(cb.x + stack[i],
                                                              cb.y + stack[i + 1]))],
                        stack, i + 2)

\* the loop of hlineto and vlineto: one LineTo per operand, the direction
\* alternates
RECURSIVE cffHVlinetoLoop(_, _, _, _)
cffHVlinetoLoop(cb, stack, i, vertical) ==
    IF i > Len(stack) THEN cb
    ELSE With([x \in {IF vertical THEN cb.x ELSE cb.x + stack[i]} |->
         With([y \in {IF vertical THEN cb.y + stack[i] ELSE cb.y} |->
           cffHVlinetoLoop([cb EXCEPT !.x = x, !.y = y, !.calls = Append(@, LineTo(x, y))],
                           stack, i + 1, ~vertical)])])

\* the loop of rrcurveto: one CubeTo per six operands
RECURSIVE cffRrcurvetoLoop(_, _, _)
cffRrcurvetoLoop(cb, stack, i) ==
    IF i > Len(stack) THEN cb
    ELSE With([x1 \in {cb.x + stack[i]} |->
         With([y1 \in {cb.y + stack[i + 1]} |->
         With([x2 \in {x1 + stack[i + 2]} |->
         With([y2 \in {y1 + stack[i + 3]} |->
         With([x \in {x2 + stack[i + 4]} |->
         With([y \in {y2 + stack[i + 5]} |->
           cffRrcurvetoLoop([cb EXCEPT !.x = x, !.y = y,
                                       !.calls = Append(@, CubeTo(x1, y1, x2, y2, x, y))],
                            stack, i + 6)])])])])])])

\* the curve operators other than rrcurveto; no CharString of the model holds one
cffOtherCurves == {27, 31, 24, 25, 30, 26, 256 + 35, 256 + 34, 256 + 36, 256 + 37}

\* the callback of cffTable.ToPath, drawn with x0 = y0 = 0 and f = 1: the
\* coordinates of the Pather calls are 16.16 fixed point.  cb = [mode, ok, x, y,
\* calls]
cffPathCallback(cb, b0, stack) ==
    IF b0 = cffRmoveto
    THEN IF Len(stack) # 2 THEN [cb EXCEPT !.ok = FALSE]
         ELSE [cb EXCEPT !.x = @ + stack[1], !.y = @ + stack[2],
                         !.calls = @ \o <<ClosePath, MoveTo(cb.x + stack[1], cb.y + stack[2])>>]
    ELSE IF b0 = cffHmoveto
    THEN IF Len(stack) # 1 THEN [cb EXCEPT !.ok = FALSE]
         ELSE [cb EXCEPT !.x = @ + stack[1],
                         !.calls = @ \o <<ClosePath, MoveTo(cb.x + stack[1], cb.y)>>]
    ELSE IF b0 = cffVmoveto
    THEN IF Len(stack) # 1 THEN [cb EXCEPT !.ok = FALSE]
         ELSE [cb EXCEPT !.y = @ + stack[1],
                         !.calls = @ \o <<ClosePath, MoveTo(cb.x, cb.y + stack[1])>>]
    ELSE IF b0 = cffRlineto
    THEN IF Len(stack) = 0 \/ Len(stack) % 2 # 0 THEN [cb EXCEPT !.ok = FALSE]
         ELSE cffRlinetoLoop(cb, stack, 1)
    ELSE IF b0 = cffHlineto \/ b0 = cffVlineto
    THEN IF Len(stack) = 0 THEN [cb EXCEPT !.ok = FALSE]
         ELSE cffHVlinetoLoop(cb, stack, 1, b0 = cffVlineto)
    ELSE IF b0 = cffRrcurveto
    THEN IF Len(stack) = 0 \/ Len(stack) % 6 # 0 THEN [cb EXCEPT !.ok = FALSE]
         ELSE cffRrcurvetoLoop(cb, stack, 1)
    ELSE IF b0 \in cffOtherCurves THEN [cb EXCEPT !.ok = FALSE]
    ELSE cb

\* the callback state ToPath starts with
PathCallback == [mode |-> "path", ok |-> TRUE, x |-> 0, y |-> 0, calls |-> <<>>]

\* the callback of ReindexSubrs, which finds the subroutines in use.  cb = [mode,
\* ok, skipDepth, localSubrsIndices, localSubrsCount, globalSubrsIndices,
\* globalSubrsCount]; a count map is a function over the indices met
cffCollectCallback(cff, cb, b0, stack) ==
    IF b0 = cffCallsubr \/ b0 = cffCallgsubr
    THEN IF 0 < cb.skipDepth THEN [cb EXCEPT !.skipDepth = @ + 1]
         ELSE IF Len(stack) = 0 THEN [cb EXCEPT !.ok = FALSE]
         ELSE
         With([sub \in {getSubroutine(cff, b0, stack[Len(stack)])} |->
           IF ~sub.ok THEN [cb EXCEPT !.ok = FALSE]
           ELSE IF b0 = cffCallsubr
           THEN IF sub.index \in DOMAIN cb.localSubrsCount
                THEN [cb EXCEPT !.localSubrsCount[sub.index] = @ + 1]
                ELSE [cb EXCEPT !.localSubrsIndices = Append(@, sub.index),
                                !.localSubrsCount = (sub.index :> 1) @@ @]
           ELSE IF sub.index \in DOMAIN cb.globalSubrsCount
                THEN [cb EXCEPT !.globalSubrsCount[sub.index] = @ + 1]
                ELSE [cb EXCEPT !.globalSubrsIndices = Append(@, sub.index),
                                !.globalSubrsCount = (sub.index :> 1) @@ @]])
    ELSE IF b0 = cffReturn /\ 0 < cb.skipDepth THEN [cb EXCEPT !.skipDepth = @ - 1]
    ELSE cb

\* a map without keys
EmptyMap == [k \in {} |-> 0]

CollectCallback ==
    [mode |-> "collect", ok |-> TRUE, skipDepth |-> 0,
     localSubrsIndices |-> <<>>, localSubrsCount |-> EmptyMap,
     globalSubrsIndices |-> <<>>, globalSubrsCount |-> EmptyMap]

\* the callback of updateSubrs, which records the call sites to rewrite.  cb =
\* [mode, ok, skipDepth, indexStack, offsetStack, localSubrsHandled,
\* globalSubrsHandled, indexChanges] and the arguments of updateSubrs:
\* localSubrsMap, globalSubrsMap, localSubrs, globalSubrs.  indexStack names the
\* INDEX a reader's bytes lie in: "charStrings", "localSubrs" (the new INDEX) or
\* "globalSubrs" (the new INDEX); indexChanges holds the changes of all three,
\* each with the name of its INDEX.  pos is r.Pos(), behind the operator
cffUpdateCallback(cff, cb, b0, stack, pos) ==
    IF b0 = cffCallsubr \/ b0 = cffCallgsubr
    THEN IF Len(stack) = 0 THEN [cb EXCEPT !.ok = FALSE]
         ELSE
         With([sub \in {getSubroutine(cff, b0, stack[Len(stack)])} |->
           IF ~sub.ok THEN [cb EXCEPT !.ok = FALSE]
           ELSE
           With([oldIndex \in {sub.index} |->
           With([map \in {IF b0 = cffCallsubr THEN cb.localSubrsMap ELSE cb.globalSubrsMap} |->
           With([mapped \in {oldIndex \in DOMAIN map} |->
           With([newIndex \in {IF mapped THEN map[oldIndex] ELSE 0} |->
           With([oldBias \in {cffCharStringSubrsBias(
                                IF b0 = cffCallgsubr THEN cffINDEXLen(cff.globalSubrs)
                                ELSE IF cff.localSubrs = <<>> THEN 0
                                ELSE cffINDEXLen(cff.localSubrs[1]))} |->
           With([newBias \in {cffCharStringSubrsBias(
                                cffINDEXLen(IF b0 = cffCallsubr THEN cb.localSubrs
                                            ELSE cb.globalSubrs))} |->
           With([lenNumber \in {cffNumberSize(oldIndex - oldBias)} |->
           With([start \in {cb.offsetStack[Len(cb.offsetStack)] + pos - 1 - lenNumber} |->
           With([cb1 \in {IF cb.skipDepth = 0 /\ mapped /\ oldIndex # newIndex
                          THEN [cb EXCEPT !.indexChanges =
                                  Append(@, [INDEX |-> cb.indexStack[Len(cb.indexStack)],
                                             start |-> start, end |-> start + lenNumber,
                                             index |-> newIndex - newBias])]
                          ELSE cb} |->
           With([handled \in {IF b0 = cffCallsubr THEN cb.localSubrsHandled
                              ELSE cb.globalSubrsHandled} |->
           With([index \in {IF b0 = cffCallsubr THEN cb.localSubrs ELSE cb.globalSubrs} |->
             IF 0 < cb.skipDepth \/ oldIndex \in handled
             THEN [cb1 EXCEPT !.skipDepth = @ + 1]
             ELSE IF newIndex >= Len(index.offset) THEN [cb1 EXCEPT !.ok = FALSE]
             ELSE [cb1 EXCEPT
                     !.localSubrsHandled = IF b0 = cffCallsubr THEN @ \cup {oldIndex} ELSE @,
                     !.globalSubrsHandled = IF b0 = cffCallsubr THEN @ ELSE @ \cup {oldIndex},
                     !.indexStack = Append(@, IF b0 = cffCallsubr THEN "localSubrs"
                                              ELSE "globalSubrs"),
                     !.offsetStack = Append(@, index.offset[newIndex + 1])]
           ])])])])])])])])])])])])
    ELSE IF b0 = cffReturn
    THEN IF 0 < cb.skipDepth THEN [cb EXCEPT !.skipDepth = @ - 1]
         ELSE IF Len(cb.indexStack) = 0 THEN [cb EXCEPT !.ok = FALSE]
         ELSE [cb EXCEPT !.indexStack = SubSeq(@, 1, Len(@) - 1),
                         !.offsetStack = SubSeq(@, 1, Len(@) - 1)]
    ELSE cb

\* the callback parseCharString was given, by the mode of its state
cffCallback(cff, cb, b0, stack, pos) ==
    IF cb.mode = "path" THEN cffPathCallback(cb, b0, stack)
    ELSE IF cb.mode = "collect" THEN cffCollectCallback(cff, cb, b0, stack)
    ELSE cffUpdateCallback(cff, cb, b0, stack, pos)

\* the state of parseCharString: st = [status, r, callStack, hints, stack,
\* beforeMoveto, cb]; status is "run" inside the loop, "ok" after a return of
\* nil, "error" after a return of an error and "panic" after a run-time panic
\* (slice bounds out of range); r = [b, pos] is the reader, cb the state of
\* the callback
cffStart(cff, glyphID, cb) ==
    With([charString \in {cffINDEXGet(cff.charStrings, glyphID)} |->
      [status |-> IF charString = <<>> \/ MaxUint16 < Len(charString[1]) THEN "error"
                  ELSE "run",
       r |-> [b |-> IF charString = <<>> THEN <<>> ELSE charString[1], pos |-> 0],
       callStack |-> <<>>, hints |-> 0, stack |-> <<>>, beforeMoveto |-> TRUE,
       cb |-> cb]])

cffError(st) == [st EXCEPT !.status = "error"]

cffPanic(st) == [st EXCEPT !.status = "panic"]

\* the switch of parseCharString behind the callback; pos is behind the operator
cffOperator(cff, st, b0, pos) ==
    IF b0 = cffEndchar
    THEN IF Len(st.stack) # 0 THEN cffError(st) ELSE [st EXCEPT !.status = "ok", !.r.pos = pos]
    ELSE IF b0 \in {cffHstem, cffVstem, cffHstemhm, cffVstemhm}
    THEN IF Len(st.stack) < 2 \/ Len(st.stack) % 2 # 0 THEN cffError(st)
         ELSE IF 96 < st.hints + Len(st.stack) \div 2 THEN cffError(st)
         ELSE [st EXCEPT !.hints = @ + Len(st.stack) \div 2, !.stack = <<>>, !.r.pos = pos]
    ELSE IF b0 \in {cffHintmask, cffCntrmask}
    THEN IF b0 = cffHintmask /\ 0 < Len(st.stack) /\ Len(st.stack) % 2 # 0 THEN cffError(st)
         ELSE With([hints \in {IF b0 = cffHintmask
                               THEN st.hints + Len(st.stack) \div 2 ELSE st.hints} |->
                IF 96 < hints THEN cffError(st)
                ELSE [st EXCEPT !.hints = hints, !.stack = <<>>,
                                !.r.pos = Min(Len(st.r.b), pos + (hints + 7) \div 8)]])
    ELSE IF b0 \in {cffCallsubr, cffCallgsubr}
    THEN IF 10 < Len(st.callStack) \/ Len(st.stack) = 0 THEN cffError(st)
         ELSE With([sub \in {getSubroutine(cff, b0, st.stack[Len(st.stack)])} |->
                IF ~sub.ok THEN cffError(st)
                ELSE [st EXCEPT !.stack = SubSeq(@, 1, Len(@) - 1),
                                !.callStack = Append(@, [b |-> st.r.b, pos |-> pos]),
                                !.r = [b |-> sub.subr, pos |-> 0]]])
    ELSE IF b0 = cffReturn
    THEN IF Len(st.callStack) = 0 THEN cffError(st)
         ELSE [st EXCEPT !.r = st.callStack[Len(st.callStack)],
                         !.callStack = SubSeq(@, 1, Len(@) - 1)]
    ELSE IF b0 \in cffPathOperators THEN [st EXCEPT !.stack = <<>>, !.r.pos = pos]
    ELSE cffError(st)

\* the handling of the optional width, in front of the callback: the state
\* with the operands the callback is given; stack[1:] of an empty stack is
\* a run-time panic
cffWidth(st, b0) ==
    IF st.beforeMoveto
    THEN IF b0 \in {cffHstem, cffVstem, cffVmoveto, cffEndchar} \/ (cffHstemhm <= b0 /\ b0 <= cffVstemhm)
         THEN With([hasWidth \in {(Len(st.stack) % 2 = 1) # (b0 \in {cffHmoveto, cffVmoveto})} |->
                IF hasWidth /\ st.stack = <<>> THEN cffPanic(st)
                ELSE [st EXCEPT !.stack = IF hasWidth THEN Tail(@) ELSE @,
                                !.beforeMoveto = b0 \notin {cffRmoveto, cffHmoveto, cffVmoveto}]])
         ELSE IF b0 \notin {cffCallsubr, cffCallgsubr, cffReturn} THEN cffError(st)
         ELSE st
    ELSE IF b0 \in {cffHstem, cffVstem, cffHstemhm, cffVstemhm} THEN cffError(st)
    ELSE st

\* one round of the loop of parseCharString
cffStep(cff, st) ==
    IF st.status # "run" THEN st
    ELSE IF st.r.pos >= Len(st.r.b) THEN cffError(st)
    ELSE
    With([b0 \in {st.r.b[st.r.pos + 1]} |->
      IF 32 <= b0 \/ b0 = cffShortint
      THEN With([num \in {cffReadCharStringNumber(st.r.b, st.r.pos + 1, b0)} |->
             IF 48 <= Len(st.stack) THEN cffError(st)
             ELSE [st EXCEPT !.stack = Append(@, num.v),
                             !.r.pos = Min(Len(st.r.b), num.pos)]])
      ELSE
      With([op \in {IF b0 = cffEscape THEN 256 + cffByte(st.r.b, st.r.pos + 1) ELSE b0} |->
      With([pos \in {Min(Len(st.r.b), st.r.pos + (IF b0 = cffEscape THEN 2 ELSE 1))} |->
      With([st1 \in {cffWidth(st, op)} |->
        IF st1.status # "run" THEN st1
        ELSE With([cb \in {cffCallback(cff, st1.cb, op, st1.stack, pos)} |->
               IF ~cb.ok THEN cffError([st1 EXCEPT !.cb = cb])
               ELSE cffOperator(cff, [st1 EXCEPT !.cb = cb], op, pos)])])])])])

\* n rounds of the loop, by halves
RECURSIVE cffSteps(_, _, _)
cffSteps(cff, st, n) ==
    IF n = 0 \/ st.status # "run" THEN st
    ELSE IF n = 1 THEN cffStep(cff, st)
    ELSE cffSteps(cff, cffSteps(cff, st, n \div 2), n - n \div 2)

\* the loop of parseCharString up to its return
RECURSIVE cffRun(_, _, _)
cffRun(cff, st, n) ==
    With([st1 \in {cffSteps(cff, st, n)} |->
      IF st1.status # "run" THEN st1 ELSE cffRun(cff, st1, 2 * n)])

\* parseCharString: the state at its return
parseCharString(cff, glyphID, cb) == cffRun(cff, cffStart(cff, glyphID, cb), 16)

\* cffTable.ToPath: [ok, calls]
cffToPath(cff, glyphID) ==
    With([st \in {parseCharString(cff, glyphID, PathCallback)} |->
      IF st.status # "ok" THEN [ok |-> FALSE, calls |-> st.cb.calls]
      ELSE [ok |-> TRUE, calls |-> Append(st.cb.calls, ClosePath)]])

\* the number updateSubrs writes at a call site: the shortest encoding of an
\* integer; <<>> where the code gives an error
cffWriteNumber(i) ==
    IF -107 <= i /\ i <= 107 THEN <<i + 139>>
    ELSE IF 108 <= i /\ i <= 1131 THEN <<(i - 108) \div 256 + 247, (i - 108) % 256>>
    ELSE IF -1131 <= i /\ i <= -108 THEN <<(0 - i - 108) \div 256 + 251, (0 - i - 108) % 256>>
    ELSE IF -32768 <= i /\ i <= 32767 THEN <<28, U16(i + Pow16) \div 256, U16(i + Pow16) % 256>>
    ELSE <<>>

(***************************************************************************)
(* Specification of cffTable.ToPath: the CharString of a glyph is          *)
(* interpreted round by round of the loop of parseCharString               *)
(***************************************************************************)
MaxNesting == 12   \* subroutines that call one another in a chain

\* the operand of a call of subroutine index in an INDEX of n subroutines
cffSubrNumber(index, n) == cffWriteNumber(index - cffCharStringSubrsBias(n))

\* a font of one glyph and a chain of n subroutines, local or global: the glyph
\* calls subroutine 0, subroutine k calls subroutine k + 1 and returns, the
\* last one returns
NestedFont(n, b0) ==
    With([subrs \in {cffINDEXOf([k \in 1..n |->
                       IF k < n THEN cffSubrNumber(k, n) \o <<b0, cffReturn>>
                       ELSE <<cffReturn>>])} |->
      [charStrings |-> cffINDEXOf(<<cffSubrNumber(0, n) \o <<b0, cffEndchar>>>>),
       globalSubrs |-> IF b0 = cffCallgsubr THEN subrs ELSE EmptyINDEX,
       localSubrs |-> IF b0 = cffCallsubr THEN <<subrs>> ELSE <<EmptyINDEX>>]])

\* the CharString [width] [hstem] [vstem] dx dy rmoveto d hlineto endchar; p =
\* [width, hstem, vstem, dx, dy, d], width a sequence of no or one number
LineCharString(p) ==
    Flatten([i \in 1..Len(p.width) |-> cffWriteNumber(p.width[i])])
    \o (IF p.hstem THEN cffWriteNumber(0) \o cffWriteNumber(20) \o cffWriteNumber(120)
                        \o cffWriteNumber(20) \o <<cffHstem>>
        ELSE <<>>)
    \o (IF p.vstem THEN cffWriteNumber(10) \o cffWriteNumber(30) \o <<cffVstem>> ELSE <<>>)
    \o cffWriteNumber(p.dx) \o cffWriteNumber(p.dy) \o <<cffRmoveto>>
    \o cffWriteNumber(p.d) \o <<cffHlineto, cffEndchar>>

LineParameters ==
    [width : {<<>>, <<17>>}, hstem : BOOLEAN, vstem : BOOLEAN,
     dx : {100, -3}, dy : {200}, d : {50, -200}]

\* a font of one glyph without subroutines
LineFont(p) ==
    [charStrings |-> cffINDEXOf(<<LineCharString(p)>>),
     globalSubrs |-> EmptyINDEX, localSubrs |-> <<>>]

InitCharString ==
    /\ sfnt \in { [CFF |-> NestedFont(n, b0)] :
                    n \in 1..MaxNesting, b0 \in {cffCallsubr, cffCallgsubr} }
                \cup { [CFF |-> LineFont(p)] : p \in LineParameters }
    /\ sfnt2 = None
    /\ call = [op |-> "none"]
    /\ ret = [status |-> "none"]
    /\ pc = "idle"

\* ToPath up to the loop of parseCharString
StartToPath ==
    /\ pc = "idle"
    /\ \E glyphID \in 0..(cffINDEXLen(sfnt.CFF.charStrings) - 1) :
          /\ call' = [op |-> "ToPath", glyphID |-> glyphID]
          /\ ret' = cffStart(sfnt.CFF, glyphID, PathCallback)
    /\ pc' = "running"
    /\ UNCHANGED <<sfnt, sfnt2>>

\* one round of the loop of parseCharString
StepCharString ==
    /\ pc = "running"
    /\ ret.status = "run"
    /\ ret' = cffStep(sfnt.CFF, ret)
    /\ UNCHANGED <<sfnt, sfnt2, call, pc>>

\* ToPath behind parseCharString: the path is closed unless an error is returned
ReturnToPath ==
    /\ pc = "running"
    /\ ret.status # "run"
    /\ ret' = IF ret.status = "ok"
              THEN [ok |-> TRUE, calls |-> Append(ret.cb.calls, ClosePath)]
              ELSE [ok |-> FALSE, calls |-> ret.cb.calls]
    /\ pc' = "done"
    /\ UNCHANGED <<sfnt, sfnt2, call>>

NextCharString == StartToPath \/ StepCharString \/ ReturnToPath

SpecCharString == InitCharString /\ [][NextCharString]_vars

\* C17: while a CharString is interpreted the call stack never holds more than
\* 10 readers: a callsubr or callgsubr at nesting depth 10 gives an error and
\* pushes no 11th reader
C17_CallStackAtMostTen ==
    pc = "running" => Len(ret.callStack) <= 10

\* C18: for a CharString of an optional width, stem hints, one rmoveto dx dy,
\* one hlineto d and endchar, ToPath issues MoveTo(dx, dy), LineTo(dx + d, dy)
\* and Close, in that order, and no other call
C18_MoveLineClose ==
    \A p \in LineParameters :
       (pc = "done" /\ sfnt.CFF = LineFont(p)) =>
           ret = [ok |-> TRUE,
                  calls |-> <<MoveTo(p.dx * Pow16, p.dy * Pow16),
                              LineTo((p.dx + p.d) * Pow16, p.dy * Pow16),
                              ClosePath>>]

(***************************************************************************)
(* cffTable.ReindexSubrs and cffTable.updateSubrs                          *)
(***************************************************************************)
\* the loop of ReindexSubrs over the glyphs: the callback's state behind the
\* last glyph, ok = FALSE where parseCharString returns an error
RECURSIVE cffCollect(_, _, _)
cffCollect(cff, glyphID, cb) ==
    IF glyphID >= cffINDEXLen(cff.charStrings) THEN cb
    ELSE With([st \in {parseCharString(cff, glyphID, cb)} |->
           IF st.status # "ok" THEN [st.cb EXCEPT !.ok = FALSE]
           ELSE cffCollect(cff, glyphID + 1, st.cb)])

\* sort.SliceStable, descending by count: an index stands behind the indices
\* of a greater count and behind the earlier indices of its own count
sortSliceStable(indices, count) ==
    With([rank \in {[i \in 1..Len(indices) |->
                      Cardinality({j \in 1..Len(indices) :
                          \/ count[indices[i]] < count[indices[j]]
                          \/ (count[indices[i]] = count[indices[j]] /\ j < i)}) + 1]} |->
      [p \in 1..Len(indices) |-> indices[CHOOSE i \in 1..Len(indices) : rank[i] = p]]])

\* the new INDEX of ReindexSubrs: the subroutines of the old INDEX in the
\* order of indices, each one added with Add
cffNewSubrs(subrs, indices) ==
    cffINDEXAddAll(EmptyINDEX,
                   [n \in 1..Len(indices) |->
                      Slice(subrs.data, subrs.offset[indices[n] + 1],
                            subrs.offset[indices[n] + 2])],
                   1, Len(indices))

\* the map from old to new index
cffSubrsMap(indices) ==
    [oldIndex \in {indices[p] : p \in 1..Len(indices)} |->
        (CHOOSE p \in 1..Len(indices) : indices[p] = oldIndex) - 1]

\* the state of the callback of updateSubrs in front of the first glyph
UpdateCallback(localSubrsMap, globalSubrsMap, localSubrs, globalSubrs) ==
    [mode |-> "update", ok |-> TRUE, skipDepth |-> 0,
     indexStack |-> <<>>, offsetStack |-> <<>>,
     localSubrsHandled |-> {}, globalSubrsHandled |-> {}, indexChanges |-> <<>>,
     localSubrsMap |-> localSubrsMap, globalSubrsMap |-> globalSubrsMap,
     localSubrs |-> localSubrs, globalSubrs |-> globalSubrs]

\* the first loop of updateSubrs over the glyphs
RECURSIVE cffUpdate(_, _, _)
cffUpdate(cff, glyphID, cb) ==
    IF glyphID >= cffINDEXLen(cff.charStrings) THEN cb
    ELSE With([st \in {parseCharString(cff, glyphID,
                         [cb EXCEPT !.skipDepth = 0,
                                    !.indexStack = <<"charStrings">>,
                                    !.offsetStack = <<cff.charStrings.offset[glyphID + 1]>>])} |->
           IF st.status # "ok" THEN [st.cb EXCEPT !.ok = FALSE]
           ELSE cffUpdate(cff, glyphID + 1, st.cb)])

\* sort.Slice by start, of the changes of one INDEX
cffSortChanges(changes) ==
    With([rank \in {[i \in 1..Len(changes) |->
                      Cardinality({j \in 1..Len(changes) :
                          \/ changes[j].start < changes[i].start
                          \/ (changes[j].start = changes[i].start /\ j < i)}) + 1]} |->
      [p \in 1..Len(changes) |-> changes[CHOOSE i \in 1..Len(changes) : rank[i] = p]]])

\* one round of the second loop of updateSubrs for one INDEX: a = [ok, offsets,
\* k, offset, diff, data] in front of change ch; k is the code's k, the number of
\* entries of index.offset that are settled, and the code's panic at a slice
\* whose bounds are out of range is the error ok = FALSE
cffApplyChange(index, a, ch) ==
    With([number \in {cffWriteNumber(ch.index)} |->
      IF ~a.ok \/ number = <<>> \/ ch.start < a.offset \/ Len(index.data) < ch.end
      THEN [a EXCEPT !.ok = FALSE]
      ELSE
      With([k \in {a.k + Cardinality({i \in (a.k + 1)..Len(a.offsets) :
                                         a.offsets[i] <= ch.start})} |->
        [ok |-> TRUE,
         offsets |-> [i \in 1..Len(a.offsets) |->
                        IF a.k < i /\ i <= k THEN a.offsets[i] + a.diff ELSE a.offsets[i]],
         k |-> k,
         offset |-> ch.end,
         diff |-> a.diff + Len(number) - (ch.end - ch.start),
         data |-> a.data \o Slice(index.data, a.offset, ch.start) \o number]])])

\* the rounds lo..hi of the second loop, by halves
RECURSIVE cffApplyChanges(_, _, _, _, _)
cffApplyChanges(index, a, changes, lo, hi) ==
    IF hi < lo THEN a
    ELSE IF lo = hi THEN cffApplyChange(index, a, changes[lo])
    ELSE With([a1 \in {cffApplyChanges(index, a, changes, lo, (lo + hi) \div 2)} |->
           cffApplyChanges(index, a1, changes, (lo + hi) \div 2 + 1, hi)])

\* the INDEX behind its changes
cffChangedINDEX(index, allChanges, name) ==
    With([changes \in {cffSortChanges(SelectSeq(allChanges, LAMBDA ch : ch.INDEX = name))} |->
      IF changes = <<>> THEN [ok |-> TRUE, index |-> index]
      ELSE
      With([a \in {cffApplyChanges(index,
                                   [ok |-> TRUE, offsets |-> index.offset, k |-> 1,
                                    offset |-> 0, diff |-> 0, data |-> <<>>],
                                   changes, 1, Len(changes))} |->
        IF ~a.ok THEN [ok |-> FALSE, index |-> index]
        ELSE [ok |-> TRUE,
              index |-> [offset |-> [i \in 1..Len(a.offsets) |->
                                       IF a.k < i /\ a.diff # 0 THEN a.offsets[i] + a.diff
                                       ELSE a.offsets[i]],
                         data |-> a.data \o Slice(index.data, a.offset, Len(index.data))]]])])

\* updateSubrs: [ok, cff]
updateSubrs(cff, localSubrsMap, globalSubrsMap, localSubrs, globalSubrs) ==
    IF 1 < Len(cff.localSubrs) THEN [ok |-> FALSE, cff |-> cff]
    ELSE IF DOMAIN localSubrsMap = {} /\ DOMAIN globalSubrsMap = {} THEN [ok |-> TRUE, cff |-> cff]
    ELSE
    With([cb \in {cffUpdate(cff, 0, UpdateCallback(localSubrsMap, globalSubrsMap,
                                                   localSubrs, globalSubrs))} |->
      IF ~cb.ok THEN [ok |-> FALSE, cff |-> cff]
      ELSE
      With([c \in {cffChangedINDEX(cff.charStrings, cb.indexChanges, "charStrings")} |->
      With([l \in {cffChangedINDEX(localSubrs, cb.indexChanges, "localSubrs")} |->
      With([g \in {cffChangedINDEX(globalSubrs, cb.indexChanges, "globalSubrs")} |->
        [ok |-> c.ok /\ l.ok /\ g.ok,
         cff |-> [charStrings |-> c.index, globalSubrs |-> g.index,
                  localSubrs |-> <<l.index>>]]])])])])

\* ReindexSubrs: [ok, cff, localSubrsMap, globalSubrsMap]
ReindexSubrs(cff) ==
    IF 1 < Len(cff.localSubrs)
    THEN [ok |-> FALSE, cff |-> cff, localSubrsMap |-> EmptyMap, globalSubrsMap |-> EmptyMap]
    ELSE
    With([cb \in {cffCollect(cff, 0, CollectCallback)} |->
      IF ~cb.ok
      THEN [ok |-> FALSE, cff |-> cff, localSubrsMap |-> EmptyMap, globalSubrsMap |-> EmptyMap]
      ELSE
      With([localSubrsIndices \in {sortSliceStable(cb.localSubrsIndices, cb.localSubrsCount)} |->
      With([globalSubrsIndices \in {sortSliceStable(cb.globalSubrsIndices, cb.globalSubrsCount)} |->
      With([localSubrs \in {IF cff.localSubrs = <<>> THEN EmptyINDEX
                            ELSE cffNewSubrs(cff.localSubrs[1], localSubrsIndices)} |->
      With([globalSubrs \in {cffNewSubrs(cff.globalSubrs, globalSubrsIndices)} |->
      With([u \in {updateSubrs(cff, cffSubrsMap(localSubrsIndices),
                               cffSubrsMap(globalSubrsIndices), localSubrs, globalSubrs)} |->
        [ok |-> u.ok, cff |-> u.cff,
         localSubrsMap |-> cffSubrsMap(localSubrsIndices),
         globalSubrsMap |-> cffSubrsMap(globalSubrsIndices)]])])])])])])

(***************************************************************************)
(* Specification of ReindexSubrs: a CFF font is reindexed in one call      *)
(***************************************************************************)
MaxSubrs == 216    \* subroutines of the largest font

\* a number in one of its encodings in a CharString: the shortest one, the
\* three bytes behind 28, or the five bytes of a 16.16 number behind 255
cffEncodeNumber(i, enc) ==
    IF enc = "shortint" THEN <<cffShortint, U16(i + Pow16) \div 256, U16(i + Pow16) % 256>>
    ELSE IF enc = "fixed" THEN <<255, U16(i + Pow16) \div 256, U16(i + Pow16) % 256, 0, 0>>
    ELSE cffWriteNumber(i)

\* the font with subrs as its local or as its global subroutines
SubrsFont(charStrings, subrs, b0) ==
    [charStrings |-> cffINDEXOf(charStrings),
     globalSubrs |-> IF b0 = cffCallgsubr THEN cffINDEXOf(subrs) ELSE EmptyINDEX,
     localSubrs |-> IF b0 = cffCallsubr THEN <<cffINDEXOf(subrs)>> ELSE <<>>]

\* a font of one glyph and three subroutines that draw one line each; the
\* glyph moves and calls subroutine a and subroutine b, the operands encoded
\* as enc says
CallFont(a, b, enc, b0) ==
    SubrsFont(<<cffWriteNumber(100) \o cffWriteNumber(200) \o <<cffRmoveto>>
                \o cffEncodeNumber(a - 107, enc) \o <<b0>>
                \o cffEncodeNumber(b - 107, enc) \o <<b0, cffEndchar>>>>,
              <<cffWriteNumber(10) \o <<cffHlineto, cffReturn>>,
                cffWriteNumber(50) \o <<cffHlineto, cffReturn>>,
                cffWriteNumber(-20) \o <<cffVlineto, cffReturn>>>>,
              b0)

\* a font of two glyphs and a chain of n subroutines: subroutine 0 draws a
\* line, subroutine k calls subroutine k - 1 and draws a line; glyph 0 calls
\* the last subroutine, glyph 1 the last and the first one
ChainFont(n, b0) ==
    SubrsFont(<<cffWriteNumber(100) \o cffWriteNumber(200) \o <<cffRmoveto>>
                \o cffSubrNumber(n - 1, n) \o <<b0, cffEndchar>>,
                cffWriteNumber(5) \o cffWriteNumber(5) \o <<cffRmoveto>>
                \o cffSubrNumber(n - 1, n) \o <<b0>>
                \o cffSubrNumber(0, n) \o <<b0, cffEndchar>>>>,
              [k \in 1..n |->
                 IF k = 1 THEN cffWriteNumber(30) \o <<cffHlineto, cffReturn>>
                 ELSE cffSubrNumber(k - 2, n) \o <<b0>>
                      \o cffWriteNumber(10 * k) \o <<cffVlineto, cffReturn>>],
              b0)

\* the calls of the subroutines lo..hi of n, by halves
RECURSIVE cffCalls(_, _, _, _)
cffCalls(n, b0, lo, hi) ==
    IF hi < lo THEN <<>>
    ELSE IF lo = hi THEN cffSubrNumber(lo, n) \o <<b0>>
    ELSE cffCalls(n, b0, lo, (lo + hi) \div 2) \o cffCalls(n, b0, (lo + hi) \div 2 + 1, hi)

\* a font of two glyphs and n subroutines that return at once: glyph 0 calls
\* the last subroutine, glyph 1 calls all the others in the order of their
\* indices
ManySubrsFont(n, b0) ==
    SubrsFont(<<cffWriteNumber(1) \o cffWriteNumber(1) \o <<cffRmoveto>>
                \o cffSubrNumber(n - 1, n) \o <<b0, cffEndchar>>,
                cffWriteNumber(2) \o cffWriteNumber(2) \o <<cffRmoveto>>
                \o cffCalls(n, b0, 0, n - 2)
                \o <<cffEndchar>>>>,
              [k \in 1..n |-> <<cffReturn>>],
              b0)

ReindexFonts ==
    { CallFont(a, b, enc, b0) : a \in 0..2, b \in 0..2,
                                enc \in {"shortest", "shortint", "fixed"},
                                b0 \in {cffCallsubr, cffCallgsubr} }
    \cup { ChainFont(n, b0) : n \in 2..4, b0 \in {cffCallsubr, cffCallgsubr} }
    \cup { ManySubrsFont(MaxSubrs, cffCallsubr) }

InitReindex ==
    /\ sfnt \in { [CFF |-> cff] : cff \in ReindexFonts }
    /\ sfnt2 = None
    /\ call = [op |-> "none"]
    /\ ret = [status |-> "none"]
    /\ pc = "idle"

\* sfnt.CFF.ReindexSubrs(); the call keeps the table as it was
DoReindexSubrs ==
    /\ pc = "idle"
    /\ \E r \in {ReindexSubrs(sfnt.CFF)} :
          /\ sfnt' = [CFF |-> r.cff]
          /\ ret' = [ok |-> r.ok, localSubrsMap |-> r.localSubrsMap,
                     globalSubrsMap |-> r.globalSubrsMap]
    /\ call' = [op |-> "ReindexSubrs", before |-> sfnt.CFF]
    /\ pc' = "done"
    /\ UNCHANGED sfnt2

NextReindex == DoReindexSubrs

SpecReindex == InitReindex /\ [][NextReindex]_vars

\* the length of entry i of an INDEX
cffEntryLen(t, i) == t.offset[i + 2] - t.offset[i + 1]

\* the local subroutines of a table, an empty INDEX where it has none
cffLocalSubrs(cff) == IF cff.localSubrs = <<>> THEN EmptyINDEX ELSE cff.localSubrs[1]

\* C19: behind a successful ReindexSubrs no CharString is longer than it was,
\* and no subroutine is longer at its new index than it was at its old index
C19_NoBufferGrows ==
    (pc = "done" /\ ret.ok) =>
        /\ \A glyphID \in 0..(cffINDEXLen(call.before.charStrings) - 1) :
              cffEntryLen(sfnt.CFF.charStrings, glyphID)
                 <= cffEntryLen(call.before.charStrings, glyphID)
        /\ \A oldIndex \in DOMAIN ret.localSubrsMap :
              cffEntryLen(cffLocalSubrs(sfnt.CFF), ret.localSubrsMap[oldIndex])
                 <= cffEntryLen(cffLocalSubrs(call.before), oldIndex)
        /\ \A oldIndex \in DOMAIN ret.globalSubrsMap :
              cffEntryLen(sfnt.CFF.globalSubrs, ret.globalSubrsMap[oldIndex])
                 <= cffEntryLen(call.before.globalSubrs, oldIndex)

\* every CharString of a table is interpreted without error
cffAllInterpret(cff) ==
    \A glyphID \in 0..(cffINDEXLen(cff.charStrings) - 1) : cffToPath(cff, glyphID).ok

\* C20: behind ReindexSubrs on a font whose CharStrings are all interpreted
\* without error, every glyph is interpreted without error and gives the path
\* calls, with their operands, that it gave before, in whatever valid encoding
\* the operands of callsubr and callgsubr are written
C20_ReindexKeepsPaths ==
    (pc = "done" /\ cffAllInterpret(call.before)) =>
        \A glyphID \in 0..(cffINDEXLen(call.before.charStrings) - 1) :
           cffToPath(sfnt.CFF, glyphID) = cffToPath(call.before, glyphID)

(***************************************************************************)
(* SFNT.Merge of two CFF fonts.  A parsed CFF table holds pointers to its  *)
(* INDEXes: an INDEX of a font is [ref, offset, data], where ref names the *)
(* object, and two INDEXes of one ref are one object.  Merge runs on the   *)
(* heap of both fonts, which maps a ref to [offset, data].                 *)
(***************************************************************************)
cffINDEXes(cff) ==
    {cff.charStrings, cff.globalSubrs} \cup {cff.localSubrs[i] : i \in 1..Len(cff.localSubrs)}

\* the objects a table points to
cffRefs(cff) == {t.ref : t \in cffINDEXes(cff)}

\* the name of the copy Merge makes of the CharStrings of the other font
cffCharStrings2 == <<"Merge", "charStrings2">>

\* the heap of two tables and the copy
cffHeap(cff, cff2) ==
    [ref \in cffRefs(cff) \cup cffRefs(cff2) \cup {cffCharStrings2} |->
       IF ref = cffCharStrings2 THEN EmptyINDEX
       ELSE With([t \in {CHOOSE t \in cffINDEXes(cff) \cup cffINDEXes(cff2) : t.ref = ref} |->
              [offset |-> t.offset, data |-> t.data]])]

\* a table as it points into a heap
cffView(cff, heap) ==
    [charStrings |-> [ref |-> cff.charStrings.ref,
                      offset |-> heap[cff.charStrings.ref].offset,
                      data |-> heap[cff.charStrings.ref].data],
     globalSubrs |-> [ref |-> cff.globalSubrs.ref,
                      offset |-> heap[cff.globalSubrs.ref].offset,
                      data |-> heap[cff.globalSubrs.ref].data],
     localSubrs |-> [i \in 1..Len(cff.localSubrs) |->
                       [ref |-> cff.localSubrs[i].ref,
                        offset |-> heap[cff.localSubrs[i].ref].offset,
                        data |-> heap[cff.localSubrs[i].ref].data]]]

\* cffINDEX.Extend; o is <<>> for nil
cffINDEXExtend(t, o) ==
    IF o = <<>> THEN t
    ELSE IF Len(o[1].offset) < 2 THEN t
    ELSE IF Len(t.offset) < 2 THEN o[1]
    ELSE [offset |-> t.offset \o [i \in 1..(Len(o[1].offset) - 1) |->
                                    Len(t.data) + o[1].offset[i + 1]],
          data |-> t.data \o o[1].data]

cffINDEXOffSize(n) ==
    IF n <= 255 THEN 1 ELSE IF n <= MaxUint16 THEN 2 ELSE IF n <= 2 * Pow2(24) - 1 THEN 3 ELSE 4

\* cffINDEX.Write: [ok, b]
cffINDEXWrite(t) ==
    IF MaxUint16 < Len(t.offset) - 1 THEN [ok |-> FALSE, b |-> <<>>]
    ELSE IF Len(t.data) = 0 THEN [ok |-> TRUE, b |-> <<0, 0>>]
    ELSE IF Len(t.offset) = 0 THEN [ok |-> FALSE, b |-> <<>>]
    ELSE IF t.offset[1] # 0 \/ t.offset[Len(t.offset)] # Len(t.data)
    THEN [ok |-> FALSE, b |-> <<>>]
    ELSE
    With([offSize \in {cffINDEXOffSize(Len(t.data) + 1)} |->
      [ok |-> TRUE,
       b |-> BE16(Len(t.offset) - 1) \o <<offSize>>
             \o Flatten([i \in 1..Len(t.offset) |->
                           IF offSize = 1 THEN <<(t.offset[i] + 1) % 256>>
                           ELSE IF offSize = 2 THEN BE16(t.offset[i] + 1)
                           ELSE IF offSize = 3
                           THEN <<((t.offset[i] + 1) \div Pow16) % 256>>
                                \o BE16((t.offset[i] + 1) % 256)
                           ELSE BE32(t.offset[i] + 1)])
             \o t.data]])

\* cffTable.Write, of which the model holds the header and the three INDEXes
\* Merge works on, in the order in which Write lays them down; the Name
\* INDEX, the DICTs, the String INDEX and the charset are left out.
\* [ok, b]
cffWrite(cff) ==
    With([g \in {cffINDEXWrite(cff.globalSubrs)} |->
    With([c \in {cffINDEXWrite(cff.charStrings)} |->
    With([l \in {IF cff.localSubrs = <<>> THEN [ok |-> TRUE, b |-> <<>>]
                 ELSE cffINDEXWrite(cff.localSubrs[1])} |->
      [ok |-> Len(cff.localSubrs) <= 1 /\ g.ok /\ c.ok /\ l.ok,
       b |-> <<1, 0, 4, 1>> \o g.b \o c.b \o l.b]])])])

\* the operands in front of the callsubr and callgsubr operators of the data
\* of an INDEX, from pos on: [start, end, b0, num]
RECURSIVE cffCallSites(_, _, _, _)
cffCallSites(data, pos, posNumber, lenNumber) ==
    IF pos >= Len(data) THEN <<>>
    ELSE
    With([b0 \in {data[pos + 1]} |->
      IF 32 <= b0 \/ b0 = cffShortint
      THEN With([len \in {IF b0 = cffShortint THEN 3 ELSE IF b0 = 255 THEN 5
                          ELSE IF 247 <= b0 THEN 2 ELSE 1} |->
             cffCallSites(data, pos + len, pos, len)])
      ELSE IF b0 = cffEscape THEN cffCallSites(data, pos + 2, 0, 0)
      ELSE IF b0 \in {cffCallsubr, cffCallgsubr} /\ 0 < lenNumber
      THEN <<[start |-> posNumber, end |-> posNumber + lenNumber, b0 |-> b0,
              num |-> cffReadCharStringNumber(data, posNumber + 1, data[posNumber + 1]).v
                      \div Pow16]>>
           \o cffCallSites(data, pos + 1, 0, 0)
      ELSE cffCallSites(data, pos + 1, 0, 0)])

\* cffUpdateSubrs(index, localSubrsMap, globalSubrsMap, localSubrsLen,
\* globalSubrsLen): the call sites of the INDEX whose old index a map holds are
\* overwritten in place with the shortest encoding of the new index under the
\* bias of the new length; a map is <<>> for nil, and the old bias is that of
\* the INDEX the map was made for.  The INDEX after the call
cffUpdateSubrs(index, localSubrsMap, globalSubrsMap, localSubrsLen, globalSubrsLen) ==
    With([sites \in {cffCallSites(index.data, 0, 0, 0)} |->
    With([changes \in {[i \in 1..Len(sites) |->
            With([map \in {IF sites[i].b0 = cffCallsubr THEN localSubrsMap
                           ELSE globalSubrsMap} |->
              IF map = <<>> THEN [INDEX |-> "none"]
              ELSE
              With([oldIndex \in {sites[i].num
                                  + cffCharStringSubrsBias(Cardinality(DOMAIN map[1]))} |->
                IF oldIndex \notin DOMAIN map[1] THEN [INDEX |-> "none"]
                ELSE [INDEX |-> "index", start |-> sites[i].start, end |-> sites[i].end,
                      index |-> map[1][oldIndex]
                                - cffCharStringSubrsBias(
                                    IF sites[i].b0 = cffCallsubr THEN localSubrsLen
                                    ELSE globalSubrsLen)]])])]} |->
      With([c \in {cffChangedINDEX(index, changes, "index")} |->
        IF c.ok THEN c.index ELSE index])])])

\* cffUpdateSubrs on the objects of refs, one after the other
RECURSIVE cffUpdateAll(_, _, _, _, _, _)
cffUpdateAll(heap, refs, localSubrsMap, globalSubrsMap, localSubrsLen, globalSubrsLen) ==
    IF refs = <<>> THEN heap
    ELSE cffUpdateAll([heap EXCEPT ![refs[1]] =
                         cffUpdateSubrs(@, localSubrsMap, globalSubrsMap,
                                        localSubrsLen, globalSubrsLen)],
                      Tail(refs), localSubrsMap, globalSubrsMap,
                      localSubrsLen, globalSubrsLen)

\* the map of the n indices of an INDEX to themselves plus offset
cffOffsetMap(n, offset) == [i \in 0..(n - 1) |-> offset + i]

\* the branch of Merge for CFF tables: [font, font2, status].  A pointer to an
\* INDEX is <<ref>>, nil is <<>>
mergeCFF(f, f2) ==
    With([heap0 \in {cffHeap(f.CFF, f2.CFF)} |->
    With([c2 \in {f2.CFF.charStrings} |->
    With([heap1 \in {[heap0 EXCEPT ![cffCharStrings2] =
                        [offset |-> [i \in 1..(Len(c2.offset) - 1) |->
                                       c2.offset[i + 1] - c2.offset[2]],
                         data |-> Slice(c2.data, c2.offset[2], Len(c2.data))]]} |->
    With([localSubrs \in {IF 0 < Len(f.CFF.localSubrs)
                             /\ 0 < cffINDEXLen(f.CFF.localSubrs[1])
                          THEN <<f.CFF.localSubrs[1].ref>> ELSE <<>>} |->
    With([localSubrs2 \in {IF 0 < Len(f2.CFF.localSubrs)
                              /\ 0 < cffINDEXLen(f2.CFF.localSubrs[1])
                           THEN <<f2.CFF.localSubrs[1].ref>> ELSE <<>>} |->
    With([globalSubrs \in {IF 0 < cffINDEXLen(f2.CFF.globalSubrs)
                           THEN <<f2.CFF.globalSubrs.ref>>
                           ELSE IF 0 < cffINDEXLen(f.CFF.globalSubrs)
                           THEN <<f.CFF.globalSubrs.ref>> ELSE <<>>} |->
    With([globalSubrs2 \in {<<>>} |->
    With([localSubrsLen \in {(IF localSubrs = <<>> THEN 0 ELSE cffINDEXLen(heap1[localSubrs[1]]))
                             + (IF localSubrs2 = <<>> THEN 0
                                ELSE cffINDEXLen(heap1[localSubrs2[1]]))} |->
    With([globalSubrsLen \in {cffINDEXLen(f.CFF.globalSubrs)
                              + cffINDEXLen(f2.CFF.globalSubrs)} |->
    With([localSubrsMap \in {IF localSubrs # <<>>
                                /\ cffNumberSize(localSubrsLen)
                                   # cffNumberSize(cffINDEXLen(heap1[localSubrs[1]]))
                             THEN <<cffOffsetMap(cffINDEXLen(heap1[localSubrs[1]]), 0)>>
                             ELSE <<>>} |->
    With([globalSubrsMap \in {IF globalSubrs # <<>>
                                 /\ cffNumberSize(globalSubrsLen)
                                    # cffNumberSize(cffINDEXLen(heap1[globalSubrs[1]]))
                              THEN <<cffOffsetMap(cffINDEXLen(heap1[globalSubrs[1]]), 0)>>
                              ELSE <<>>} |->
    With([heap2 \in {IF localSubrsMap # <<>> \/ globalSubrsMap # <<>>
                     THEN cffUpdateAll(heap1,
                                       <<f.CFF.charStrings.ref>> \o localSubrs \o globalSubrs,
                                       localSubrsMap, globalSubrsMap,
                                       localSubrsLen, globalSubrsLen)
                     ELSE heap1} |->
    With([localSubrsMap2 \in {IF localSubrs2 # <<>>
                                 /\ (localSubrs # <<>>
                                     \/ cffNumberSize(localSubrsLen)
                                        # cffNumberSize(cffINDEXLen(heap2[localSubrs2[1]])))
                              THEN <<cffOffsetMap(cffINDEXLen(heap2[localSubrs2[1]]),
                                                  IF localSubrs = <<>> THEN 0
                                                  ELSE cffINDEXLen(heap2[localSubrs[1]]))>>
                              ELSE <<>>} |->
    With([globalSubrsMap2 \in {IF globalSubrs2 # <<>>
                                  /\ (globalSubrs # <<>>
                                      \/ cffNumberSize(globalSubrsLen)
                                         # cffNumberSize(cffINDEXLen(heap2[globalSubrs2[1]])))
                               THEN <<cffOffsetMap(cffINDEXLen(heap2[globalSubrs2[1]]),
                                                   IF globalSubrs = <<>> THEN 0
                                                   ELSE cffINDEXLen(heap2[globalSubrs[1]]))>>
                               ELSE <<>>} |->
    With([heap3 \in {IF localSubrsMap2 # <<>> \/ globalSubrsMap2 # <<>>
                     THEN cffUpdateAll(heap2, <<cffCharStrings2>> \o localSubrs2 \o globalSubrs2,
                                       localSubrsMap2, globalSubrsMap2,
                                       localSubrsLen, globalSubrsLen)
                     ELSE heap2} |->
    With([heap4 \in {[heap3 EXCEPT ![f.CFF.charStrings.ref] =
                        cffINDEXExtend(@, <<heap3[cffCharStrings2]>>)]} |->
    With([heap5 \in {[heap4 EXCEPT ![f.CFF.globalSubrs.ref] =
                        cffINDEXExtend(@, IF globalSubrs2 = <<>> THEN <<>>
                                          ELSE <<heap4[globalSubrs2[1]]>>)]} |->
    With([heap6 \in {IF localSubrs # <<>>
                     THEN [heap5 EXCEPT ![localSubrs[1]] =
                             cffINDEXExtend(@, IF localSubrs2 = <<>> THEN <<>>
                                               ELSE <<heap5[localSubrs2[1]]>>)]
                     ELSE heap5} |->
    With([cff \in {cffView(IF localSubrs = <<>> /\ localSubrs2 # <<>>
                           THEN [f.CFF EXCEPT !.localSubrs = <<f2.CFF.localSubrs[1]>>]
                           ELSE f.CFF, heap6)} |->
    With([b \in {cffWrite(cff)} |->
      [font |-> IF b.ok THEN [f EXCEPT !.CFF = cff, !.Tables["CFF "] = b.b]
                ELSE [f EXCEPT !.CFF = cff],
       font2 |-> [f2 EXCEPT !.CFF = cffView(f2.CFF, heap6)],
       status |-> IF b.ok THEN "ok" ELSE "panic"]
    ])])])])])])])])])])])])])])])])])])])])

\* Merge for two fonts of which one at least is a CFF font: [font, font2,
\* status]
MergeCFF(f, f2, IdentityCmap) ==
    IF f.IsTrueType # f2.IsTrueType \/ f.IsCFF # f2.IsCFF
    THEN [font |-> f, font2 |-> f2, status |-> "error"]
    ELSE IF MaxUint16 - NumGlyphs(f) < NumGlyphs(f2)
    THEN [font |-> f, font2 |-> f2, status |-> "error"]
    ELSE IF NumGlyphs(f2) < 2
    THEN [font |-> f, font2 |-> f2, status |-> "ok"]
    ELSE
    With([origNumGlyphs \in {NumGlyphs(f)} |->
    With([numGlyphs \in {U16(NumGlyphs(f) + NumGlyphs(f2) - 1)} |->
    With([a \in {IF Has(f, "CFF ") /\ f.IsCFF THEN mergeCFF(mergeMaxp(f, numGlyphs), f2)
                 ELSE [font |-> mergeMaxp(f, numGlyphs), font2 |-> f2, status |-> "ok"]} |->
      IF a.status # "ok" \/ ~(Has(f, "hmtx") \/ Has(f, "cmap") \/ Has(f, "OS/2")) THEN a
      ELSE With([b \in {mergeCmap(mergeHmtx(a.font, a.font2, origNumGlyphs, numGlyphs),
                                  a.font2, IdentityCmap, origNumGlyphs, numGlyphs)} |->
             IF b.status # "ok" THEN [font |-> b.font, font2 |-> a.font2, status |-> b.status]
             ELSE With([c \in {mergeOS2(b.font, a.font2)} |->
                    [font |-> c.font, font2 |-> a.font2, status |-> c.status]])])])])])

(***************************************************************************)
(* Specification of Merge for CFF fonts: the receiver merges the other     *)
(* font, and then merges it once more                                      *)
(***************************************************************************)
MaxMergeSubrs == 2   \* local subroutines of a font

\* an INDEX as the object ref
cffINDEXAt(ref, t) == [ref |-> ref, offset |-> t.offset, data |-> t.data]

\* a parsed CFF font owner with glyph 0 (.notdef) and numGlyphs - 1 more glyphs,
\* which move and call every subroutine of the font; a local subroutine draws
\* a horizontal line, a global one a vertical line
MergeCFFFont(owner, numGlyphs, numLocal, numGlobal) ==
    With([cff \in {
      [charStrings |->
         cffINDEXAt(<<owner, "charStrings">>,
           cffINDEXOf([k \in 1..numGlyphs |->
             IF k = 1 THEN <<cffEndchar>>
             ELSE cffWriteNumber(10 * k) \o cffWriteNumber(0) \o <<cffRmoveto>>
                  \o Flatten([j \in 1..numLocal |->
                                cffSubrNumber(j - 1, numLocal) \o <<cffCallsubr>>])
                  \o Flatten([j \in 1..numGlobal |->
                                cffSubrNumber(j - 1, numGlobal) \o <<cffCallgsubr>>])
                  \o <<cffEndchar>>])),
       globalSubrs |->
         cffINDEXAt(<<owner, "globalSubrs">>,
           cffINDEXOf([j \in 1..numGlobal |->
             cffWriteNumber(20 + j) \o <<cffVlineto, cffReturn>>])),
       localSubrs |->
         IF numLocal = 0 THEN <<>>
         ELSE <<cffINDEXAt(<<owner, "localSubrs">>,
                  cffINDEXOf([j \in 1..numLocal |->
                    cffWriteNumber(10 + j) \o <<cffHlineto, cffReturn>>]))>>]} |->
      [IsTrueType |-> FALSE, IsCFF |-> TRUE,
       Tables |-> [t \in {"CFF ", "maxp"} |->
                     IF t = "maxp" THEN BE32(20480) \o BE16(numGlyphs) ELSE cffWrite(cff).b],
       Maxp |-> [NumGlyphs |-> numGlyphs],
       CFF |-> cff]])

InitMergeCFF ==
    /\ sfnt \in { MergeCFFFont("sfnt", numGlyphs, numLocal, numGlobal) :
                    numGlyphs \in 1..2, numLocal \in 0..MaxMergeSubrs, numGlobal \in 0..1 }
    /\ sfnt2 \in { MergeCFFFont("sfnt2", numGlyphs, numLocal, numGlobal) :
                     numGlyphs \in 1..3, numLocal \in 0..MaxMergeSubrs, numGlobal \in 0..1 }
    /\ call = [op |-> "none"]
    /\ ret = "none"
    /\ pc = "idle"

\* one call sfnt.Merge(sfnt2, MergeOptions{IdentityCmap}), the first or the
\* second one; call.before and call.before2 keep both fonts as they were when
\* the call started
DoMergeCFF ==
    /\ pc \in {"idle", "merged"}
    /\ \E IdentityCmap \in BOOLEAN :
          \E m \in {MergeCFF(sfnt, sfnt2, IdentityCmap)} :
              /\ sfnt' = m.font
              /\ sfnt2' = m.font2
              /\ ret' = m.status
              /\ call' = [op |-> "Merge", IdentityCmap |-> IdentityCmap,
                          before |-> sfnt, before2 |-> sfnt2]
    /\ pc' = IF pc = "idle" THEN "merged" ELSE "done"

NextMergeCFF == DoMergeCFF

SpecMergeCFF == InitMergeCFF /\ [][NextMergeCFF]_vars

\* C11: behind a call of Merge, whether it succeeded or not, the other font is
\* as it was before the call, its tables and its parsed views with the global
\* and local subroutine INDEXes, and the receiver points to no INDEX of the
\* other font
C11_SecondaryUntouched ==
    call.op = "Merge" =>
        /\ sfnt2 = call.before2
        /\ cffRefs(sfnt.CFF) \cap cffRefs(sfnt2.CFF) = {}

(***************************************************************************)
(* CFF DICT: the operands as writeDICTEntry writes them and as             *)
(* parseDICTNumber reads them                                              *)
(***************************************************************************)
RECURSIVE Pow10(_)
Pow10(k) == IF k = 0 THEN 1 ELSE 10 * Pow10(k - 1)

\* the decimal digits of n, 0 < n, most significant first
RECURSIVE decimalDigits(_)
decimalDigits(n) == IF n < 10 THEN <<n>> ELSE Append(decimalDigits(n \div 10), n % 10)

RECURSIVE trimZeros(_)
trimZeros(d) == IF Len(d) > 0 /\ d[Len(d)] = 0 THEN trimZeros(SubSeq(d, 1, Len(d) - 1)) ELSE d

DigitChars == <<"0", "1", "2", "3", "4", "5", "6", "7", "8", "9">>
digitChars(d) == [k \in 1..Len(d) |-> DigitChars[d[k] + 1]]

\* strconv's decimal of the magnitude n rounded to six digits, half to even:
\* the digits without trailing zeros and the place of the decimal point
roundedDecimal(n) ==
    IF n = 0 THEN [d |-> <<>>, dp |-> 0]
    ELSE With([nd \in {Len(decimalDigits(n))} |->
         IF nd <= 6 THEN [d |-> trimZeros(decimalDigits(n)), dp |-> nd]
         ELSE With([unit \in {Pow10(nd - 6)} |->
              With([q \in {IF 2 * (n % unit) > unit
                              \/ (2 * (n % unit) = unit /\ (n \div unit) % 2 = 1)
                           THEN n \div unit + 1 ELSE n \div unit} |->
                  [d |-> trimZeros(decimalDigits(q)),
                   dp |-> nd + (Len(decimalDigits(q)) - 6)]])])])

\* strconv.AppendFloat(nil, float64(i), 'G', 6, 64) for an integer i: %E when
\* the exponent reaches the precision, %F otherwise
appendFloatG6(i) ==
    With([r \in {roundedDecimal(IF i < 0 THEN 0 - i ELSE i)} |->
    With([nd \in {Len(r.d)} |->
    With([eprec \in {IF 6 > nd /\ nd >= r.dp THEN nd ELSE 6} |->
        (IF i < 0 THEN <<"-">> ELSE <<>>)
        \o (IF r.dp - 1 >= eprec
            THEN <<DigitChars[r.d[1] + 1]>>
                 \o (IF nd > 1 THEN <<".">> \o digitChars(SubSeq(r.d, 2, nd)) ELSE <<>>)
                 \o <<"E", "+">>
                 \o digitChars(<<(r.dp - 1) \div 10, (r.dp - 1) % 10>>)
            ELSE IF r.dp = 0 THEN <<"0">>
            ELSE digitChars([k \in 1..r.dp |-> IF k <= nd THEN r.d[k] ELSE 0]))])])])

\* cffDICTFloat of an integer operand: the characters and the size of the
\* operand as a real number
cffDICTFloat(i) ==
    With([floatNibbles \in {appendFloatG6(i)} |->
        [floatNibbles |-> floatNibbles, nFloat |-> 1 + (Len(floatNibbles) + 2) \div 2]])

cffDICTIntegerSize(i) == cffNumberSize(i)

\* the nibble of one character of floatNibbles; a character without a case
\* leaves the shifted byte as it is, a zero nibble
cffNibble(c, next) ==
    IF c = "." THEN 10
    ELSE IF c = "E" THEN (IF next = "-" THEN 12 ELSE 11)
    ELSE IF c = "-" THEN 14
    ELSE IF c = "+" THEN 0
    ELSE CHOOSE v \in 0..9 : DigitChars[v + 1] = c

\* the loop over floatNibbles: i the index, nibs the nibbles so far
RECURSIVE cffNibbles(_, _, _)
cffNibbles(floatNibbles, i, nibs) ==
    IF i > Len(floatNibbles) THEN nibs
    ELSE With([next \in {IF i + 1 <= Len(floatNibbles) THEN floatNibbles[i + 1] ELSE ""} |->
         cffNibbles(floatNibbles,
                    IF floatNibbles[i] = "E" /\ next = "-" THEN i + 2 ELSE i + 1,
                    Append(nibs, cffNibble(floatNibbles[i], next)))])

\* the bytes of the nibbles, closed by the end nibble 0xF or the byte 0xFF
cffNibbleBytes(nibs) ==
    [k \in 1..(Len(nibs) \div 2) |-> 16 * nibs[2 * k - 1] + nibs[2 * k]]
    \o (IF Len(nibs) % 2 = 1 THEN <<16 * nibs[Len(nibs)] + 15>> ELSE <<255>>)

cffAllowFloat(op) ==
    \/ (5 <= op /\ op <= 11) \/ op = 20 \/ op = 21
    \/ (255 + 2 <= op /\ op <= 255 + 4) \/ (255 + 7 <= op /\ op <= 255 + 13)
    \/ op = 255 + 18 \/ op = 255 + 23

\* writeDICTEntry, one round of the loop over vals for an integer operand i
\* of the operator op: the bytes written
writeDICTOperand(op, i) ==
    IF cffAllowFloat(op) /\ cffDICTFloat(i).nFloat < cffDICTIntegerSize(i)
    THEN <<30>> \o cffNibbleBytes(cffNibbles(cffDICTFloat(i).floatNibbles, 1, <<>>))
    ELSE IF -107 <= i /\ i <= 107 THEN <<i + 139>>
    ELSE IF 108 <= i /\ i <= 1131 THEN <<(i - 108) \div 256 + 247, (i - 108) % 256>>
    ELSE IF -1131 <= i /\ i <= -108
    THEN <<(0 - i - 108) \div 256 + 251, (0 - i - 108) % 256>>
    ELSE IF -32768 <= i /\ i <= 32767 THEN <<28>> \o BE16(i)
    ELSE <<29>> \o BE32(i)

\* writeDICTEntry(w, op, vals...) for integer operands: [ok, b]
writeDICTEntry(op, vals) ==
    IF 48 < Len(vals) THEN [ok |-> FALSE, b |-> <<>>]
    ELSE With([b \in {Flatten([k \in 1..Len(vals) |-> writeDICTOperand(op, vals[k])])} |->
         IF 256 + 256 <= op \/ op = 12 THEN [ok |-> FALSE, b |-> b]
         ELSE IF 256 <= op THEN [ok |-> TRUE, b |-> b \o <<12, U8(op - 256)>>]
         ELSE [ok |-> TRUE, b |-> Append(b, U8(op))]])

\* the integer operands: the values around every limit of the encoding, the
\* powers of ten and the ends of the 32-bit range
DICTIntegers ==
    UNION { (v - 2)..(v + 2) : v \in {-32768, -1131, -108, 0, 107, 1131, 32767} }
    \cup { d * Pow10(k) : d \in {1, 9}, k \in 4..8 }
    \cup { 0 - Pow10(k) : k \in 4..9 }
    \cup { 65535, 65536, 123456, 1234567, 999999, 9999995, 2000000000,
           2147483647, -2147483647, -65536 }

\* operators that take one number: CharStrings (17) and Private (18) take
\* offsets, defaultWidthX (20) and StdHW (10) are among the operators that
\* allow a real number, UnderlinePosition (12 3) has two bytes
DICTOperators == {10, 17, 18, 20, 256 + 3}

cffOperatorSize(op) == IF 256 <= op THEN 2 ELSE 1

InitDICTWrite ==
    /\ sfnt \in { [op |-> op, val |-> i] : op \in DICTOperators, i \in DICTIntegers }
    /\ sfnt2 = None
    /\ call = [op |-> "none"]
    /\ ret = [ok |-> FALSE, b |-> <<>>]
    /\ pc = "idle"

\* one call writeDICTEntry(w, op, val) on an empty writer
DoWriteDICTEntry ==
    /\ pc = "idle"
    /\ call' = [op |-> "writeDICTEntry"]
    /\ ret' = writeDICTEntry(sfnt.op, <<sfnt.val>>)
    /\ pc' = "done"
    /\ UNCHANGED <<sfnt, sfnt2>>

NextDICTWrite == DoWriteDICTEntry

SpecDICTWrite == InitDICTWrite /\ [][NextDICTWrite]_vars

\* C21: the DICT writer emits an integer operand in exactly
\* cffDICTIntegerSize(i) bytes, and that size is 1 for -107..107, 2 for
\* 108..1131 and -1131..-108, 3 for 1132..32767 and -32767..-1132, and 5 for
\* every other value
C21_WriterSize ==
    (pc = "done" /\ call.op = "writeDICTEntry" /\ ret.ok) =>
        /\ Len(ret.b) - cffOperatorSize(sfnt.op) = cffDICTIntegerSize(sfnt.val)
        /\ cffDICTIntegerSize(sfnt.val) =
              IF -107 <= sfnt.val /\ sfnt.val <= 107 THEN 1
              ELSE IF (108 <= sfnt.val /\ sfnt.val <= 1131)
                      \/ (-1131 <= sfnt.val /\ sfnt.val <= -108) THEN 2
              ELSE IF (1132 <= sfnt.val /\ sfnt.val <= 32767)
                      \/ (-32767 <= sfnt.val /\ sfnt.val <= -1132) THEN 3
              ELSE 5

(***************************************************************************)
(* CFF INDEX: parseINDEX, Get and the way back through Write               *)
(***************************************************************************)
\* The offsets are uint32 in the source. The model's integers end at
\* 2^31 - 1, and every uint32 from there on is held as MaxInt32: such a value
\* is only ever compared with the length of a buffer, and it is above every
\* length a buffer of the model has.
MaxInt32 == 2147483647

\* BinaryReader.Len: the bytes that are left
ReaderLen(r) == Len(r.b) - r.pos

ReadUint32(r) ==
    IF Short(r, 4) THEN 0
    ELSE IF r.b[r.pos + 1] >= 128 THEN MaxInt32
    ELSE Uint16At(r.b, r.pos) * Pow16 + Uint16At(r.b, r.pos + 2)

\* uint32(x) - 1, which wraps to 2^32 - 1 at x = 0
uint32Minus1(x) == IF x = 0 \/ x = MaxInt32 THEN MaxInt32 ELSE x - 1

\* the offset that parseINDEX reads at r for the offset size offSize
cffReadOffset(r, offSize) ==
    uint32Minus1(IF offSize = 1 THEN ReadByte(r)
                 ELSE IF offSize = 2 THEN ReadUint16(r)
                 ELSE IF offSize = 3 THEN ReadUint16(r) * 256 + ReadByte(Skipped(r, 2))
                 ELSE ReadUint32(r))

\* parseINDEX(r, isCFF2): [ok, t, r], r the reader behind the INDEX
parseINDEX(r, isCFF2) ==
    With([count \in {IF isCFF2 THEN ReadUint32(r) ELSE ReadUint16(r)} |->
    With([r1 \in {Skipped(r, IF isCFF2 THEN 4 ELSE 2)} |->
        IF count = 0 THEN [ok |-> TRUE, t |-> EmptyINDEX, r |-> r1]
        ELSE IF 1000000 < count THEN [ok |-> FALSE, t |-> EmptyINDEX, r |-> r1]
        ELSE
        With([offSize \in {ReadByte(r1)} |->
        With([r2 \in {Skipped(r1, 1)} |->
            IF offSize = 0 \/ 4 < offSize THEN [ok |-> FALSE, t |-> EmptyINDEX, r |-> r2]
            ELSE IF ReaderLen(r2) < offSize * (count + 1)
            THEN [ok |-> FALSE, t |-> EmptyINDEX, r |-> r2]
            ELSE
            With([offset \in {[i \in 1..(count + 1) |->
                                 cffReadOffset(Skipped(r2, offSize * (i - 1)), offSize)]} |->
            With([r3 \in {Skipped(r2, offSize * (count + 1))} |->
                IF ReaderLen(r3) < offset[count + 1]
                THEN [ok |-> FALSE, t |-> EmptyINDEX, r |-> r3]
                ELSE [ok |-> TRUE,
                      t |-> [offset |-> offset, data |-> ReadBytes(r3, offset[count + 1])],
                      r |-> Skipped(r3, offset[count + 1])]])])])])])])

\* what t.Get(i) can do: the slice expression data[lo:hi:hi] panics when lo is
\* above hi; when hi is above len(data) it panics or gives bytes behind the
\* data of the INDEX, as the capacity of data allows
cffINDEXGetOutcomes(t, i) ==
    IF ~(i < cffINDEXLen(t)) THEN {[status |-> "nil"]}
    ELSE IF t.offset[i + 1] > t.offset[i + 2] THEN {[status |-> "panic"]}
    ELSE IF t.offset[i + 2] > Len(t.data) THEN {[status |-> "panic"], [status |-> "outside"]}
    ELSE {[status |-> "ok", b |-> Slice(t.data, t.offset[i + 1], t.offset[i + 2])]}

\* the invariant of an INDEX
cffINDEXInvariant(t) ==
    Len(t.offset) > 0 =>
        /\ t.offset[1] = 0
        /\ \A i \in 1..(Len(t.offset) - 1) : t.offset[i + 1] >= t.offset[i]
        /\ t.offset[Len(t.offset)] = Len(t.data)

\* the bound of the stored offsets and of the bytes behind them in the byte
\* strings handed to parseINDEX
MaxStoredOffset == 3

\* an offset as a writer of the size offSize stores it
cffStoredOffset(v, offSize) ==
    IF offSize = 1 THEN <<v>>
    ELSE IF offSize = 2 THEN <<0, v>>
    ELSE IF offSize = 3 THEN <<0, 0, v>>
    ELSE IF offSize = 4 THEN <<0, 0, 0, v>>
    ELSE <<>>

INDEXTail == [k \in 1..MaxStoredOffset |-> 6 + k]

\* byte strings of the form of an INDEX: every count up to 2, every offset
\* size from 0 to 5, every choice of stored offsets and 0..MaxStoredOffset
\* bytes behind them
INDEXBytes ==
    { <<0, count, offSize>>
      \o Flatten([i \in 1..(count + 1) |-> cffStoredOffset(stored[i], offSize)])
      \o SubSeq(INDEXTail, 1, n) :
        count \in 0..2, offSize \in 0..5, n \in 0..MaxStoredOffset,
        stored \in [1..3 -> 0..MaxStoredOffset] }
    \cup { <<>>, <<0>>, <<0, 1>>, <<0, 1, 1>>, <<0, 1, 1, 1>> }

\* an entry of n bytes
INDEXEntry(n) == [k \in 1..n |-> k % 251]

\* the INDEXes that Add builds of the entries of these lengths; the data of
\* 254 bytes is the last with the offset size 1, the data of 65534 bytes the
\* last with the offset size 2
INDEXLengths ==
    { <<0>>, <<1>>, <<2, 3>>, <<0, 0>>, <<3, 0, 1>>, <<254>>, <<255>>, <<100, 155>>,
      <<300, 5>>, <<65534>>, <<65535>>, <<300, 65235>>, <<65536, 300>>, <<1, 65535>> }

INDEXObjects ==
    { cffINDEXOf([k \in 1..Len(ls) |-> INDEXEntry(ls[k])]) : ls \in INDEXLengths }
    \cup {EmptyINDEX}

InitINDEX ==
    /\ \/ /\ sfnt \in { [kind |-> "bytes", isCFF2 |-> FALSE, b |-> b] : b \in INDEXBytes }
                      \cup { [kind |-> "bytes", isCFF2 |-> TRUE, b |-> <<0, 0>> \o b] :
                               b \in { x \in INDEXBytes : Len(x) <= 6 } }
          /\ ret = [ok |-> TRUE, b |-> sfnt.b]
          /\ pc = "bytes"
       \/ /\ sfnt \in { [kind |-> "index", isCFF2 |-> FALSE, t |-> t] : t \in INDEXObjects }
          /\ ret = [ok |-> FALSE, b |-> <<>>]
          /\ pc = "idle"
    /\ sfnt2 = [ok |-> FALSE, t |-> EmptyINDEX]
    /\ call = [op |-> "none"]

\* t.Write()
DoWriteINDEX ==
    /\ pc = "idle"
    /\ ret' = cffINDEXWrite(sfnt.t)
    /\ call' = [op |-> "Write"]
    /\ pc' = "bytes"
    /\ UNCHANGED <<sfnt, sfnt2>>

\* parseINDEX on a reader over the bytes
DoParseINDEX ==
    /\ pc = "bytes"
    /\ ret.ok
    /\ \E p \in {parseINDEX(NewBinaryReader(ret.b), sfnt.isCFF2)} :
          sfnt2' = [ok |-> p.ok, t |-> p.t]
    /\ call' = [op |-> "parseINDEX"]
    /\ pc' = "parsed"
    /\ UNCHANGED <<sfnt, ret>>

\* t.Get(i) on the INDEX that parseINDEX returned
DoGetINDEX ==
    /\ pc = "parsed"
    /\ sfnt2.ok
    /\ \E i \in 0..(cffINDEXLen(sfnt2.t) - 1) :
          \E out \in cffINDEXGetOutcomes(sfnt2.t, i) :
              call' = [op |-> "Get", i |-> i, out |-> out]
    /\ pc' = "done"
    /\ UNCHANGED <<sfnt, sfnt2, ret>>

NextINDEX == DoWriteINDEX \/ DoParseINDEX \/ DoGetINDEX

SpecINDEX == InitINDEX /\ [][NextINDEX]_vars

\* C22: every INDEX that parseINDEX returns without error has offset[0] = 0,
\* offset[i+1] >= offset[i] for every i and offset[n] = len(data), and Get(i)
\* returns a slice inside data for every i < n
C22_ParsedINDEXInvariant ==
    /\ (pc \in {"parsed", "done"} /\ sfnt2.ok) => cffINDEXInvariant(sfnt2.t)
    /\ (pc = "done" /\ call.op = "Get") => call.out.status = "ok"

\* C26: for an INDEX x that satisfies the offset invariant and that Write
\* accepts, parseINDEX of the bytes x.Write() returns gives an INDEX with the
\* same offsets and the same data
C26_WriteParseRoundTrip ==
    (pc = "parsed" /\ sfnt.kind = "index" /\ cffINDEXInvariant(sfnt.t)) =>
        /\ sfnt2.ok
        /\ sfnt2.t = sfnt.t

(***************************************************************************)
(* The reverse maps that are built at the first lookup: nameMap of the     *)
(* post table (Find) and unicodeMap of a cmap subtable (ToUnicode), with   *)
(* several goroutines on one parsed font                                   *)
(***************************************************************************)
MaxThreads == 2
Threads == 1..MaxThreads

\* the head of the list of the standard Macintosh glyph names
macintoshGlyphNames == <<".notdef", ".null", "nonmarkingreturn", "space">>

\* a Go map as the set of its <<key, value>> pairs; m[key] = value
MapPut(m, key, value) == {e \in m : e[1] # key} \cup {<<key, value>>}
\* m[key], 0 without the key
MapGet(m, key) == IF \E e \in m : e[1] = key THEN (CHOOSE e \in m : e[1] = key)[2] ELSE 0

\* the round glyphID (from 0) of the loop of Find over GlyphNameIndex
postFindRound(post, m, glyphID) ==
    With([index \in {post.GlyphNameIndex[glyphID + 1]} |->
        IF index < 258 THEN MapPut(m, macintoshGlyphNames[index + 1], glyphID)
        ELSE IF index - 258 < Len(post.stringData)
        THEN MapPut(m, post.stringData[index - 258 + 1], glyphID)
        ELSE m])

RECURSIVE postNameMap(_, _, _)
postNameMap(post, m, glyphID) ==
    IF glyphID >= Len(post.GlyphNameIndex) THEN m
    ELSE postNameMap(post, postFindRound(post, m, glyphID), glyphID + 1)

\* postTable.Find by one goroutine alone
postFind(post, name) == MapGet(postNameMap(post, {}, 0), name)

\* the function handed to once.Do by cmapFormat4.ToUnicode: the map
cmapUnicodeMap(subtable, numGlyphs) ==
    { <<glyphID, cmapSubtableToUnicode(subtable, glyphID).r>> :
        glyphID \in { g \in 0..(numGlyphs - 1) : cmapSubtableToUnicode(subtable, g).ok } }

\* the parsed font the goroutines share: four glyphs, of which 1 and 3 have
\* the same name; runes 65..67 map to the glyphs 1..3 and 68 to glyph 1 again
LazyPost == [GlyphNameIndex |-> <<0, 258, 259, 258>>, stringData |-> <<"A", "B">>]
LazySubtable ==
    [format |-> 4, StartCode |-> <<65, 68, 65535>>, EndCode |-> <<67, 68, 65535>>,
     IdDelta |-> <<-64, -67, 1>>, IdRangeOffset |-> <<0, 0, 0>>, GlyphIdArray |-> <<>>]
LazyNames == {"A", "B", ".notdef", "C"}
LazyNumGlyphs == 4

InitLazy ==
    /\ sfnt = [Post |-> [nil |-> TRUE, nameMap |-> {}],
               Cmap |-> [once |-> "new", unicodeMap |-> {}]]
    /\ sfnt2 = [postBuilds |-> 0, cmapBuilds |-> 0, raced |-> FALSE]
    /\ call \in [Threads -> { [op |-> "Find", name |-> name, glyphID |-> 0] :
                                name \in LazyNames }
                            \cup { [op |-> "ToUnicode", name |-> "", glyphID |-> g] :
                                     g \in 0..LazyNumGlyphs }]
    /\ ret = [t \in Threads |-> [status |-> "none", v |-> 0]]
    /\ pc = [t \in Threads |-> [at |-> "start", i |-> 0]]

\* another goroutine is in the loop that fills nameMap
postWriter(t) ==
    \E u \in Threads \ {t} : call[u].op = "Find" /\ pc[u].at = "loop"
\* another goroutine is inside the function handed to once.Do
cmapWriter(t) ==
    \E u \in Threads \ {t} : call[u].op = "ToUnicode" /\ pc[u].at = "build"

\* Find: the test post.nameMap == nil
FindTest(t) ==
    /\ call[t].op = "Find" /\ pc[t].at = "start"
    /\ pc' = [pc EXCEPT ![t] = [at |-> IF sfnt.Post.nil THEN "make" ELSE "lookup", i |-> 0]]
    /\ UNCHANGED <<sfnt, sfnt2, call, ret>>

\* Find: post.nameMap = make(...)
FindMake(t) ==
    /\ call[t].op = "Find" /\ pc[t].at = "make"
    /\ sfnt' = [sfnt EXCEPT !.Post = [nil |-> FALSE, nameMap |-> {}]]
    /\ sfnt2' = [sfnt2 EXCEPT !.postBuilds = @ + 1, !.raced = @ \/ postWriter(t)]
    /\ pc' = [pc EXCEPT ![t] = [at |-> "loop", i |-> 0]]
    /\ UNCHANGED <<call, ret>>

\* Find: one round of the loop, a write to the map post.nameMap points to
\* at this moment
FindLoop(t) ==
    /\ call[t].op = "Find" /\ pc[t].at = "loop"
    /\ sfnt' = [sfnt EXCEPT !.Post.nameMap = postFindRound(LazyPost, @, pc[t].i)]
    /\ sfnt2' = [sfnt2 EXCEPT !.raced = @ \/ postWriter(t)]
    /\ pc' = [pc EXCEPT ![t] = IF pc[t].i + 1 < Len(LazyPost.GlyphNameIndex)
                               THEN [at |-> "loop", i |-> pc[t].i + 1]
                               ELSE [at |-> "lookup", i |-> 0]]
    /\ UNCHANGED <<call, ret>>

\* Find: return post.nameMap[name]. A read of a map that another goroutine
\* is writing is a data race: the runtime stops the program ("concurrent map
\* read and map write") or the read gives what the map holds at this moment
FindReturn(t) ==
    /\ call[t].op = "Find" /\ pc[t].at = "lookup"
    /\ ret' \in { [ret EXCEPT ![t] = r] :
                    r \in {[status |-> "ok", v |-> MapGet(sfnt.Post.nameMap, call[t].name)]}
                          \cup (IF postWriter(t) THEN {[status |-> "fatal", v |-> 0]} ELSE {}) }
    /\ sfnt2' = [sfnt2 EXCEPT !.raced = @ \/ postWriter(t)]
    /\ pc' = [pc EXCEPT ![t] = [at |-> "done", i |-> 0]]
    /\ UNCHANGED <<sfnt, call>>

\* ToUnicode: once.Do. The first goroutine runs the function, a goroutine
\* that comes while it runs is held until it has returned, a later one goes on
ToUnicodeOnce(t) ==
    /\ call[t].op = "ToUnicode" /\ pc[t].at = "start"
    /\ sfnt.Cmap.once # "running"
    /\ IF sfnt.Cmap.once = "new"
       THEN /\ sfnt' = [sfnt EXCEPT !.Cmap.once = "running"]
            /\ pc' = [pc EXCEPT ![t] = [at |-> "build", i |-> 0]]
       ELSE /\ pc' = [pc EXCEPT ![t] = [at |-> "lookup", i |-> 0]]
            /\ UNCHANGED sfnt
    /\ UNCHANGED <<sfnt2, call, ret>>

\* ToUnicode: the function handed to once.Do, and the return of once.Do
ToUnicodeBuild(t) ==
    /\ call[t].op = "ToUnicode" /\ pc[t].at = "build"
    /\ sfnt' = [sfnt EXCEPT !.Cmap = [once |-> "done",
                                      unicodeMap |-> cmapUnicodeMap(LazySubtable, LazyNumGlyphs)]]
    /\ sfnt2' = [sfnt2 EXCEPT !.cmapBuilds = @ + 1, !.raced = @ \/ cmapWriter(t)]
    /\ pc' = [pc EXCEPT ![t] = [at |-> "lookup", i |-> 0]]
    /\ UNCHANGED <<call, ret>>

\* ToUnicode: r, ok := subtable.unicodeMap[glyphID]
ToUnicodeReturn(t) ==
    /\ call[t].op = "ToUnicode" /\ pc[t].at = "lookup"
    /\ ret' = [ret EXCEPT ![t] =
                 [status |-> IF \E e \in sfnt.Cmap.unicodeMap : e[1] = call[t].glyphID
                             THEN "ok" ELSE "none",
                  v |-> MapGet(sfnt.Cmap.unicodeMap, call[t].glyphID)]]
    /\ sfnt2' = [sfnt2 EXCEPT !.raced = @ \/ cmapWriter(t)]
    /\ pc' = [pc EXCEPT ![t] = [at |-> "done", i |-> 0]]
    /\ UNCHANGED <<sfnt, call>>

NextLazy ==
    \E t \in Threads :
        \/ FindTest(t) \/ FindMake(t) \/ FindLoop(t) \/ FindReturn(t)
        \/ ToUnicodeOnce(t) \/ ToUnicodeBuild(t) \/ ToUnicodeReturn(t)

SpecLazy == InitLazy /\ [][NextLazy]_vars

\* what the first lookup of one goroutine alone returns
lazyAlone(c) ==
    IF c.op = "Find" THEN [status |-> "ok", v |-> postFind(LazyPost, c.name)]
    ELSE With([u \in {cmapSubtableToUnicode(LazySubtable, c.glyphID)} |->
           [status |-> IF u.ok THEN "ok" ELSE "none", v |-> u.r]])

\* C23: when several goroutines do the first reverse lookup on one parsed
\* font at the same time, each reverse map is built once, no goroutine reads
\* it while another one is writing it, and every goroutine gets what a first
\* lookup alone gives
C23_LazyMapsBuiltOnce ==
    /\ sfnt2.postBuilds <= 1
    /\ sfnt2.cmapBuilds <= 1
    /\ ~sfnt2.raced
    /\ \A t \in Threads : pc[t].at = "done" => ret[t] = lazyAlone(call[t])

(***************************************************************************)
(* Specification of the hmtx compaction: a parsed font, subset or merged   *)
(* once                                                                    *)
(***************************************************************************)
MaxHmtxGlyphs == 3    \* glyphs of a font
MaxHmtxList == 3      \* longest glyph id list passed to Subset

HmtxGlyphs == [i \in 1..MaxHmtxGlyphs |-> Triangle(6 + 2 * i)]
HmtxAdvances == {500, 600}

\* TrueType fonts of n glyphs with every choice of advances; hhea counts one
\* metric per glyph, whether the last advances are equal or not
HmtxFonts(ns, rune) ==
    { parseSFNT(FontTables(SubSeq(HmtxGlyphs, 1, Len(advances)), 0, advances,
                           [i \in 1..Len(advances) |-> i],
                           IF Len(advances) < 2 THEN <<>> ELSE (rune :> 1), <<>>,
                           <<<<0, 1>>, <<0, 0>>, <<0, 0>>, <<0, 0>>>>))
      : advances \in UNION { [1..n -> HmtxAdvances] : n \in ns } }

InitHmtx ==
    /\ sfnt \in HmtxFonts({MaxHmtxGlyphs}, 65)
    /\ sfnt2 \in HmtxFonts(1..MaxHmtxGlyphs, 66)
    /\ call = [op |-> "none"]
    /\ ret = [status |-> "none"]
    /\ pc = "idle"

\* one call sfnt.Subset(glyphIDs, SubsetOptions{Tables}); ret holds the font
\* that is returned
DoSubsetHmtx ==
    /\ pc = "idle"
    /\ \E glyphIDs \in UNION { [1..n -> 0..(MaxHmtxGlyphs - 1)] : n \in 1..MaxHmtxList },
          Tables \in { <<"pdf">>, <<"hhea", "hmtx", "maxp">> } :
          \E r \in {Subset(sfnt, glyphIDs, Tables)} :
              /\ sfnt' = r.sfntOld
              /\ ret' = [sfnt |-> r.sfnt, status |-> r.status]
              /\ call' = [op |-> "Subset", glyphIDs |-> glyphIDs, merged |-> FALSE]
    /\ pc' = "done"
    /\ UNCHANGED sfnt2

\* one call sfnt.Merge(sfnt2, MergeOptions{IdentityCmap}); ret holds the
\* receiver behind the call
DoMergeHmtx ==
    /\ pc = "idle"
    /\ \E IdentityCmap \in BOOLEAN :
          \E m \in {Merge(sfnt, sfnt2, IdentityCmap)} :
              /\ sfnt' = m.font
              /\ ret' = [sfnt |-> m.font, status |-> m.status]
              /\ call' = [op |-> "Merge", glyphIDs |-> <<>>,
                          merged |-> (m.status = "ok" /\ NumGlyphs(sfnt2) >= 2)]
    /\ pc' = "done"
    /\ UNCHANGED sfnt2

NextHmtx == DoSubsetHmtx \/ DoMergeHmtx

SpecHmtx == InitHmtx /\ [][NextHmtx]_vars

\* the compaction of hmtx in the font f: the last two metrics differ in their
\* advance, in the parsed view and in the bytes of the table, and hhea gives
\* the number of metrics of the view
hmtxCompacted(f) ==
    Has(f, "hmtx") =>
        With([n \in {Len(f.Hmtx.HMetrics)} |->
            /\ Has(f, "hhea") =>
                  /\ f.Hhea.NumberOfHMetrics = n
                  /\ Uint16At(f.Tables["hhea"], 34) = n
            /\ n > 1 =>
                  /\ f.Hmtx.HMetrics[n].AdvanceWidth # f.Hmtx.HMetrics[n - 1].AdvanceWidth
                  /\ Uint16At(f.Tables["hmtx"], 4 * (n - 1))
                       # Uint16At(f.Tables["hmtx"], 4 * (n - 2))])

\* C24 as it is stated: in every font that Subset returns and in the receiver
\* behind every call of Merge that returns no error, numberOfHMetrics > 1
\* implies that the advances of the last two metrics differ
C24_EveryProductCompacted ==
    (pc = "done" /\ ret.status = "ok") => hmtxCompacted(ret.sfnt)

\* C24, amended: in every font that Subset returns and in the receiver
\* behind every call of Merge that has added the glyphs of the other font,
\* numberOfHMetrics > 1 implies that the advances of the last two metrics
\* differ
C24_ProductCompacted ==
    (pc = "done" /\ ret.status = "ok" /\ (call.op = "Subset" \/ call.merged)) =>
        hmtxCompacted(ret.sfnt)

\* a merge that leaves two metrics for four glyphs, the last three advances
\* equal
C24_Witness ==
    /\ pc = "done" /\ call.op = "Merge" /\ call.merged
    /\ NumGlyphs(ret.sfnt) = 4
    /\ ret.sfnt.Hhea.NumberOfHMetrics = 2
    /\ Advance(ret.sfnt.Hmtx, 3) = Advance(ret.sfnt.Hmtx, 2)

\* the first call of Merge has returned without error and has added glyphs
cffMerged ==
    /\ pc = "merged" /\ call.op = "Merge" /\ ret = "ok"
    /\ NumGlyphs(call.before2) >= 2

\* C25: behind a successful Merge of two CFF fonts the merged font draws
\* glyph g as the primary drew g for every g < origNumGlyphs, and glyph
\* origNumGlyphs - 1 + h as the secondary drew h for every glyph h >= 1 of
\* the secondary, also when the secondary has global subroutines
C25_MergedCFFDrawsAsSources ==
    cffMerged =>
        /\ \A g \in 0..(NumGlyphs(call.before) - 1) :
              cffToPath(sfnt.CFF, g) = cffToPath(call.before.CFF, g)
        /\ \A h \in 1..(NumGlyphs(call.before2) - 1) :
              cffToPath(sfnt.CFF, NumGlyphs(call.before) - 1 + h)
                = cffToPath(call.before2.CFF, h)

(***************************************************************************)
(* Specification of cmapWrite: a rune list and a rune map, written and     *)
(* parsed back                                                             *)
(***************************************************************************)
CmapWriteNumGlyphs == 70   \* maxp.numGlyphs of the font the table is parsed for
MaxRunLen == 12            \* runes of the long runs

\* runes that stand alone, follow one another, equal a glyph id, end the
\* 16-bit range or lie above it
CmapWriteRunes == {65, 66, 67, 69, 65535, 70000}
CmapWriteGlyphs == {0, 1, 2, 65}

\* every map from a set of these runes to these glyph ids
CmapWriteShortMaps ==
    UNION { [S -> CmapWriteGlyphs] : S \in SUBSET CmapWriteRunes \ {{}} }

\* runs of MaxRunLen runes that follow one another from 100: k glyph ids
\* that do not follow one another and a stretch that does, in both orders
CmapWriteLongMaps ==
    { [r \in 100..(99 + MaxRunLen) |-> IF r - 99 <= k THEN 2 * (r - 99) ELSE 30 + (r - 99)] :
        k \in 0..MaxRunLen }
    \cup { [r \in 100..(99 + MaxRunLen) |-> IF r - 99 <= k THEN 30 + (r - 99)
                                              ELSE 31 + 2 * (r - 99)] :
             k \in 1..(MaxRunLen - 1) }

\* the runes asked after the round trip: those of the map and runes around
\* them
CmapProbes(runeMap) == DOMAIN runeMap \cup {0, 64, 68, 99, 100 + MaxRunLen, 65534, 65535, 70001}

InitCmapWrite ==
    /\ sfnt \in { [runeMap |-> m] : m \in CmapWriteShortMaps \cup CmapWriteLongMaps }
    /\ sfnt2 = None
    /\ call = [op |-> "none"]
    /\ ret = [status |-> "none"]
    /\ pc = "idle"

\* cmapWrite(rs, runeMap) with rs the runes of the map in ascending order
DoCmapWrite ==
    /\ pc = "idle"
    /\ call' = [op |-> "cmapWrite", b |-> cmapWrite(RunesOf(DOMAIN sfnt.runeMap), sfnt.runeMap)]
    /\ pc' = "written"
    /\ UNCHANGED <<sfnt, sfnt2, ret>>

\* parseCmap of the table, and Get of every rune asked
DoCmapParse ==
    /\ pc = "written"
    /\ \E cmap \in {parseCmap(call.b, CmapWriteNumGlyphs)} :
          ret' = [status |-> IF cmap = CmapErr THEN "error" ELSE "ok",
                  Get |-> IF cmap = CmapErr THEN <<>>
                          ELSE [r \in CmapProbes(sfnt.runeMap) |-> cmapGet(cmap, r)]]
    /\ pc' = "done"
    /\ UNCHANGED <<sfnt, sfnt2, call>>

NextCmapWrite == DoCmapWrite \/ DoCmapParse

SpecCmapWrite == InitCmapWrite /\ [][NextCmapWrite]_vars

\* C27: the table cmapWrite(rs, runeMap) returns parses to a cmap whose
\* Get(r) is runeMap[r] for every rune of rs and 0 for every other rune
C27_CmapWriteRoundTrip ==
    pc = "done" =>
        /\ ret.status = "ok"
        /\ \A r \in CmapProbes(sfnt.runeMap) :
              ret.Get[r] = IF r \in DOMAIN sfnt.runeMap THEN sfnt.runeMap[r] ELSE 0


(***************************************************************************)
(* Specification of glyf Contour over glyph byte strings: a header with    *)
(* numberOfContours, a zero bounding box, and a body of bytes              *)
(***************************************************************************)
MaxGlyphBody == 6   \* bytes after the 10 header bytes

\* body bytes: 0 and 2 (end points, lengths, repeat counts, plain flags),
\* 55 (on-curve, x and y one byte each), 57 (on-curve, REPEAT, x and y the same)
GlyphBodyBytes == {0, 2, 55, 57}

\* numberOfContours: none, one, and -1 for a composite glyph
GlyphContourCounts == {0, 1, 65535}

GlyphBodies == UNION { [1..n -> GlyphBodyBytes] : n \in 0..MaxGlyphBody }

\* the glyph data: numberOfContours, xMin, yMin, xMax, yMax, body
GlyphData(numberOfContours, body) ==
    BE16(numberOfContours) \o BE16(0) \o BE16(0) \o BE16(0) \o BE16(0) \o body

InitContour ==
    /\ sfnt \in { [Glyf |-> GlyfOfGlyph(GlyphData(nc, body))] :
                    nc \in GlyphContourCounts, body \in GlyphBodies }
    /\ sfnt2 = None
    /\ call = [op |-> "none"]
    /\ ret = ContourErr
    /\ pc = "idle"

DoContour ==
    /\ pc = "idle"
    /\ ret' = Contour(sfnt.Glyf, 0)
    /\ call' = [op |-> "Contour", glyphID |-> 0]
    /\ pc' = "decoded"
    /\ UNCHANGED <<sfnt, sfnt2>>

NextContour == DoContour

SpecContour == InitContour /\ [][NextContour]_vars

\* C28: for every byte string stored as a glyph, Contour returns a contour or
\* an error and never indexes outside an array (a simple glyph with
\* numberOfContours = 0 and a non-empty body, and a REPEAT flag whose count
\* runs past the last point, included)
C28_ContourNeverPanics ==
    (pc = "decoded" /\ call.op = "Contour") => ~ret.panic


(***************************************************************************)
(* Specification of parseCharString over CharString byte strings, with the *)
(* callback of ToPath                                                      *)
(***************************************************************************)
MaxCharString == 4   \* bytes of the CharString

\* the numbers 0 and 1 (one byte each) and the operators hstem, vmoveto,
\* hlineto, endchar, rmoveto and hmoveto
CharStringBytes == {139, 140, cffHstem, cffVmoveto, cffHlineto, cffEndchar, cffRmoveto, cffHmoveto}

CharStringInputs == UNION { [1..n -> CharStringBytes] : n \in 1..MaxCharString }

\* a font of one glyph without subroutines
CharStringFont(charString) ==
    [charStrings |-> cffINDEXOf(<<charString>>),
     globalSubrs |-> EmptyINDEX, localSubrs |-> <<>>]

InitParseCharString ==
    /\ sfnt \in { [CFF |-> CharStringFont(charString), charString |-> charString] :
                    charString \in CharStringInputs }
    /\ sfnt2 = None
    /\ call = [op |-> "none"]
    /\ ret = [status |-> "none"]
    /\ pc = "idle"

DoParseCharString ==
    /\ pc = "idle"
    /\ ret' = parseCharString(sfnt.CFF, 0, PathCallback)
    /\ call' = [op |-> "parseCharString", glyphID |-> 0]
    /\ pc' = "parsed"
    /\ UNCHANGED <<sfnt, sfnt2>>

NextParseCharString == DoParseCharString

SpecParseCharString == InitParseCharString /\ [][NextParseCharString]_vars

\* the CharString starts with hmoveto or vmoveto: the operator is met before
\* the first moveto with no operands on the stack
MovetoWithoutOperands(charString) == charString[1] \in {cffHmoveto, cffVmoveto}

\* C29: for every CharString byte string parseCharString returns success or
\* an error and never removes an operand from an empty operand stack; an
\* hmoveto or vmoveto met before the first moveto with no operands on the
\* stack yields an error
C29_NoPopFromEmptyStack ==
    (pc = "parsed" /\ call.op = "parseCharString") =>
        /\ ret.status \in {"ok", "error"}
        /\ MovetoWithoutOperands(sfnt.charString) => ret.status = "error"


(***************************************************************************)
(* Specification of parseDICT: the loop over the DICT data, and inside it  *)
(* the loop of parseDICTNumber over the bytes of a real-number operand     *)
(***************************************************************************)
MaxDICT == 4   \* bytes of the DICT data

\* the characters of a real number are kept up to this length: no number that
\* ends inside the data is longer (a nibble gives two characters at most)
MaxRealChars == 4 * MaxDICT

\* DICT bytes: an operator of one operand (17), the lead byte of a real number
\* (30), the nibbles 1 and end (31, a reserved lead byte), the nibbles 5 and
\* "." (90, the integer -49 as a lead byte) and the integer 0 (139)
DICTBytes == {17, 30, 31, 90, 139}

DICTInputs == UNION { [1..n -> DICTBytes] : n \in 0..MaxDICT }

\* the operand count an operator takes: opSize, -1 for all, 1 where not listed
dictOpSize(b0, n) ==
    IF b0 = 256 + 7 THEN 6
    ELSE IF b0 = 5 THEN 4
    ELSE IF b0 = 18 THEN 2
    ELSE IF b0 = 256 + 30 THEN 3
    ELSE IF b0 \in {14, 256 + 23, 6, 7, 8, 9, 256 + 12, 256 + 13} THEN n
    ELSE 1

\* the characters a nibble below 0xF adds to num
dictNibbleChars(n) ==
    IF n = 10 THEN <<".">>
    ELSE IF n = 11 THEN <<"E">>
    ELSE IF n = 12 THEN <<"E", "-">>
    ELSE IF n = 13 THEN <<>>
    ELSE IF n = 14 THEN <<"-">>
    ELSE <<DigitChars[n + 1]>>

\* append to num, kept up to MaxRealChars characters
dictAppend(num, chars) ==
    IF Len(num) + Len(chars) > MaxRealChars THEN num ELSE num \o chars

\* strconv.ParseFloat accepts num: [-] digits [. digits] with a digit on one
\* side of the point at least (no input of the model holds an exponent)
RECURSIVE dictAllDigits(_, _)
dictAllDigits(num, k) ==
    k > Len(num) \/ (num[k] \in {DigitChars[d] : d \in 1..10} /\ dictAllDigits(num, k + 1))

dictParseFloatOk(num) ==
    With([m \in {IF num # <<>> /\ num[1] = "-" THEN Tail(num) ELSE num} |->
    With([points \in {{k \in 1..Len(m) : m[k] = "."}} |->
      /\ Cardinality(points) <= 1
      /\ Len(m) > Cardinality(points)
      /\ dictAllDigits(SelectSeq(m, LAMBDA c : c # "."), 1)])])

\* an operand of the DICT: an integer i, or the real number written as num
dictInt(i) == [int |-> TRUE, i |-> i, num |-> <<>>]
dictReal(num) == [int |-> FALSE, i |-> 0, num |-> num]

\* parseDICTNumber for a lead byte other than 30, b0 read and pos behind it:
\* [v, pos]; every read past the end of the data gives 0
dictInteger(b, pos, b0) ==
    IF b0 = 28 THEN [v |-> I16(cffByte(b, pos) * 256 + cffByte(b, pos + 1)), pos |-> pos + 2]
    ELSE IF b0 = 29
    THEN [v |-> IF cffByte(b, pos) >= 128 THEN -1 ELSE cffByte(b, pos + 3), pos |-> pos + 4]
    ELSE IF b0 < 247 THEN [v |-> b0 - 139, pos |-> pos]
    ELSE IF b0 < 251 THEN [v |-> (b0 - 247) * 256 + cffByte(b, pos) + 108, pos |-> pos + 1]
    ELSE IF b0 < 255 THEN [v |-> 0 - (b0 - 251) * 256 - cffByte(b, pos) - 108, pos |-> pos + 1]
    ELSE [v |-> 0, pos |-> pos]

\* the two nibbles of byte c of a real number: [done, num]
dictRealByte(num, c) ==
    With([hi \in {c \div 16} |->
    With([lo \in {c % 16} |->
      IF hi = 15 THEN [done |-> TRUE, num |-> num]
      ELSE With([num1 \in {dictAppend(num, dictNibbleChars(hi))} |->
             IF lo = 15 THEN [done |-> TRUE, num |-> num1]
             ELSE [done |-> FALSE, num |-> dictAppend(num1, dictNibbleChars(lo))]])])])

InitParseDICT ==
    /\ sfnt \in { [b |-> b] : b \in DICTInputs }
    /\ sfnt2 = None
    /\ call = [op |-> "none"]
    /\ ret = [status |-> "none"]
    /\ pc = "idle"

\* parseDICT up to its loop
StartParseDICT ==
    /\ pc = "idle"
    /\ call' = [op |-> "parseDICT"]
    /\ ret' = [status |-> "run", pos |-> 0, ints |-> <<>>, num |-> <<>>, rounds |-> 0]
    /\ pc' = "dict"
    /\ UNCHANGED <<sfnt, sfnt2>>

\* one round of the loop of parseDICT; a real number is entered, not read
DICTRound ==
    /\ pc = "dict"
    /\ IF ret.pos >= Len(sfnt.b)
       THEN ret' = [ret EXCEPT !.status = "ok"] /\ pc' = "done"
       ELSE
       \E b0 \in {sfnt.b[ret.pos + 1]} :
         IF b0 < 22
         THEN \E op \in {IF b0 = 12 THEN 256 + cffByte(sfnt.b, ret.pos + 1) ELSE b0} :
              \E size \in {dictOpSize(op, Len(ret.ints))} :
                IF Len(ret.ints) < size
                THEN ret' = [ret EXCEPT !.status = "error"] /\ pc' = "done"
                ELSE /\ ret' = [ret EXCEPT
                                  !.pos = Min(Len(sfnt.b), ret.pos + (IF b0 = 12 THEN 2 ELSE 1)),
                                  !.ints = SubSeq(@, 1, Len(@) - size)]
                     /\ pc' = "dict"
         ELSE IF b0 < 28 \/ b0 = 31 \/ b0 = 255
         THEN ret' = [ret EXCEPT !.pos = @ + 1] /\ pc' = "dict"
         ELSE IF 48 <= Len(ret.ints)
         THEN ret' = [ret EXCEPT !.status = "error"] /\ pc' = "done"
         ELSE IF b0 = 30
         THEN ret' = [ret EXCEPT !.pos = @ + 1, !.num = <<>>, !.rounds = 0] /\ pc' = "real"
         ELSE \E n \in {dictInteger(sfnt.b, ret.pos + 1, b0)} :
                /\ ret' = [ret EXCEPT !.pos = Min(Len(sfnt.b), n.pos),
                                      !.ints = Append(@, dictInt(n.v))]
                /\ pc' = "dict"
    /\ UNCHANGED <<sfnt, sfnt2, call>>

\* one round of the loop of parseDICTNumber over a real number: a byte is read
\* (0 past the end of the data) and its two nibbles are handled; rounds counts
\* the rounds of the loop modulo 2, so that a round is a step also where num
\* is no longer extended
RealRound ==
    /\ pc = "real"
    /\ \E c \in {dictRealByte(ret.num, cffByte(sfnt.b, ret.pos))} :
         IF c.done
         THEN /\ ret' = [ret EXCEPT
                           !.pos = Min(Len(sfnt.b), @ + 1),
                           !.num = <<>>,
                           !.rounds = 0,
                           !.ints = Append(@, IF dictParseFloatOk(c.num) THEN dictReal(c.num)
                                              ELSE dictInt(0))]
              /\ pc' = "dict"
         ELSE /\ ret' = [ret EXCEPT !.pos = Min(Len(sfnt.b), @ + 1), !.num = c.num,
                                      !.rounds = (@ + 1) % 2]
              /\ pc' = "real"
    /\ UNCHANGED <<sfnt, sfnt2, call>>

NextParseDICT == StartParseDICT \/ DICTRound \/ RealRound

SpecParseDICT == InitParseDICT /\ [][NextParseDICT]_vars

\* the rounds of the loops follow one another without a pause: a round that
\* can be taken is taken
SpecParseDICTLive == SpecParseDICT /\ WF_vars(NextParseDICT)

\* C30: parseDICTNumber terminates on every input: when a real-number operand
\* is not closed by an end nibble before the data ends, the loop stops and
\* the DICT parse ends with a result or an error
C30_ParseDICTTerminates == <>(pc = "done")

====
